---------------------------- MODULE Spec2Model ----------------------------
(***************************************************************************)
(* Image relations of ocm-helm-toolbox: resource naming, projection into   *)
(* OCM resources plus image-relations JSON, resolution during unbundle and *)
(* the construction of localized-values.yaml.                              *)
(*                                                                         *)
(* Go strings are sequences of one-character strings, so that every        *)
(* operation that looks into a string (strings.Cut, path.Base, the JSON    *)
(* encoder and decoder, sorting) is computed character by character.       *)
(***************************************************************************)
EXTENDS Integers, Sequences, FiniteSets, TLC

VARIABLES
    pc,                 \* which call of the modelled run comes next
    rels,               \* the ImageRelations slice (elements are mutated in place)
    rels0,              \* rels as it was when the last call was entered
    bundleVersion,      \* chart.Version handed to AsOCMResources
    resources,          \* AsOCMResources: resources
    imageRelationsJSON, \* AsOCMResources: imageRelationsJSON
    component,          \* resources of the rendered component (chart first)
    unbundled,          \* unbundle: rels after json.Unmarshal and resolution
    localizedValues,    \* BuildLocalizedValues: the overlay (a map node)
    written,            \* unbundle: localized-values.yaml was written
    inputs,             \* bundle: the values of the --image-relation options
    environ,            \* the environment variables of the process
    opts,               \* bundle: --component-name-prefix and --provider-name
    chartDir,           \* bundle: the chart directory named by args[0]
    steps,              \* bundle, unbundle: the steps entered, in order
    componentVersion,   \* unbundle: the resources GetOCMResources reports
    calls,              \* ParseImageRelations: its calls of parseImageRelation
    gotValue,           \* GetValue: the string it returned
    printed,            \* bundle: the component constructor was printed
    chartFile,          \* add-timestamp-to-version: Chart.yaml (<<>> or one string)
    chartFile0,         \* chartFile as it was when the last call was entered
    stampErrs,          \* add-timestamp-to-version: the errors of the calls so far
    tarball,            \* UnpackHelmChartTarball: the entries of the tar archive
    fs,                 \* UnpackHelmChartTarball: the file system, by path
    fsOps,              \* UnpackHelmChartTarball: what it did to the file system
    err                 \* the error of the last call ("" when nil)

vars == <<pc, rels, rels0, bundleVersion, resources, imageRelationsJSON,
          component, unbundled, localizedValues, written, inputs, environ, opts,
          chartDir, steps, componentVersion, calls, gotValue, printed,
          chartFile, chartFile0, stampErrs, tarball, fs, fsOps, err>>

\* the variables of add-timestamp-to-version, and of UnpackHelmChartTarball
stampVars == <<chartFile, chartFile0, stampErrs>>
unpackVars == <<tarball, fs, fsOps>>

-----------------------------------------------------------------------------
(* Bounds of the model.                                                    *)

MaxNamingRels == 3
MaxOverlayRels == 3
MaxBundleRels == 3

-----------------------------------------------------------------------------
(* Strings.                                                                *)

\* The characters of the model in ascending byte order.
Ascii ==
    <<"\"", "-", ".", "/", "0", "1", "2", "3", "4", "5", "6", "7", "8", "9",
      ":", "<", ">", "@", "A", "C", "I", "[", "\\", "]", "_",
      "a", "b", "c", "d", "e", "f", "g", "h", "i", "j", "k", "l", "m", "n",
      "o", "p", "q", "r", "s", "t", "u", "v", "w", "x", "y", "z", "{", "}">>

Code(c) == CHOOSE i \in 1..Len(Ascii) : Ascii[i] = c

\* a < b for strings, bytewise (Go's < on string, used by slices.Sorted)
RECURSIVE StrLess(_, _)
StrLess(a, b) ==
    IF b = <<>> THEN FALSE
    ELSE IF a = <<>> THEN TRUE
    ELSE IF Head(a) = Head(b) THEN StrLess(Tail(a), Tail(b))
    ELSE Code(Head(a)) < Code(Head(b))

\* strings.Index(s, c) for a one-character c, 1-based; 0 when absent
Index(s, c) ==
    IF \E i \in 1..Len(s) : s[i] = c
    THEN CHOOSE i \in 1..Len(s) : s[i] = c /\ \A j \in 1..(i - 1) : s[j] # c
    ELSE 0

\* strings.LastIndex(s, c), 1-based; 0 when absent
LastIndex(s, c) ==
    IF \E i \in 1..Len(s) : s[i] = c
    THEN CHOOSE i \in 1..Len(s) : s[i] = c /\ \A j \in (i + 1)..Len(s) : s[j] # c
    ELSE 0

\* strings.Cut(s, sep) for a one-character sep
Cut(s, sep) ==
    LET i == Index(s, sep) IN
    IF i = 0 THEN [before |-> s, after |-> <<>>, found |-> FALSE]
    ELSE [before |-> SubSeq(s, 1, i - 1), after |-> SubSeq(s, i + 1, Len(s)),
          found |-> TRUE]

\* strings.Split(s, sep) for a one-character sep
RECURSIVE Split(_, _)
Split(s, sep) ==
    LET c == Cut(s, sep) IN
    IF c.found THEN <<c.before>> \o Split(c.after, sep) ELSE <<s>>

\* strconv.Itoa for n >= 0 (the %d of fmt.Sprintf)
Digits == <<"0", "1", "2", "3", "4", "5", "6", "7", "8", "9">>

RECURSIVE Itoa(_)
Itoa(n) ==
    LET digit == <<Digits[(n % 10) + 1]>> IN
    IF n < 10 THEN digit ELSE Itoa(n \div 10) \o digit

\* path.Base
RECURSIVE TrimTrailingSlashes(_)
TrimTrailingSlashes(s) ==
    IF s # <<>> /\ s[Len(s)] = "/" THEN TrimTrailingSlashes(SubSeq(s, 1, Len(s) - 1))
    ELSE s

Base(p) ==
    IF p = <<>> THEN <<".">>
    ELSE LET t == TrimTrailingSlashes(p)
             u == SubSeq(t, LastIndex(t, "/") + 1, Len(t))
         IN  IF u = <<>> THEN <<"/">> ELSE u

-----------------------------------------------------------------------------
(* Image references (github.com/containers/image/v5/docker/reference).     *)
(* A reference.Named is its repository name with an optional tag and an    *)
(* optional digest; an absent part is the empty string.                    *)

Ref(name, tag, digest) == [name |-> name, tag |-> tag, digest |-> digest]

\* reference.Named.Name()
RefName(ref) == ref.name

\* reference.Tagged / reference.Digested type assertions
IsTagged(ref) == ref.tag # <<>>
IsDigested(ref) == ref.digest # <<>>

\* reference.Named.String(): name[:tag][@digest]
RefString(ref) ==
    ref.name
    \o (IF IsTagged(ref) THEN <<":">> \o ref.tag ELSE <<>>)
    \o (IF IsDigested(ref) THEN <<"@">> \o ref.digest ELSE <<>>)

DefaultDomain == <<"d","o","c","k","e","r",".","i","o">>
OfficialRepoName == <<"l","i","b","r","a","r","y">>
Localhost == <<"l","o","c","a","l","h","o","s","t">>

NameChars == {"a","b","c","d","e","f","g","h","i","j","k","l","m","n","o","p",
              "q","r","s","t","u","v","w","x","y","z",
              "0","1","2","3","4","5","6","7","8","9"}
NameSeparators == {".", "_", "-"}

\* one path component of a repository name: alphanumerics joined by single separators
ValidComponent(s) ==
    /\ s # <<>>
    /\ \A i \in 1..Len(s) : s[i] \in NameChars \cup NameSeparators
    /\ s[1] \in NameChars /\ s[Len(s)] \in NameChars
    /\ \A i \in 1..(Len(s) - 1) : ~(s[i] = "." /\ s[i + 1] \in NameSeparators)
                                 /\ ~(s[i] \in NameSeparators /\ s[i + 1] = ".")

ValidTag(s) ==
    /\ s # <<>>
    /\ \A i \in 1..Len(s) : s[i] \in NameChars \cup NameSeparators
    /\ s[1] \in NameChars \cup {"_"}

\* algorithm:hex
ValidDigest(s) ==
    LET c == Cut(s, ":") IN
    /\ c.found /\ c.before # <<>> /\ c.after # <<>>
    /\ \A i \in 1..Len(c.before) : c.before[i] \in NameChars
    /\ \A i \in 1..Len(c.after) : c.after[i] \in NameChars

ValidDomain(s) ==
    LET c == Cut(s, ":") IN
    /\ ValidComponent(c.before)
    /\ c.found => (c.after # <<>> /\ \A i \in 1..Len(c.after) : c.after[i] \in NameChars)

\* reference.ParseNormalizedNamed: the default registry and the "library/"
\* namespace are added where missing, then name[:tag][@digest] is split
ParseNormalizedNamed(s) ==
    LET i == Index(s, "/")
        first == SubSeq(s, 1, i - 1)
        noDomain == i = 0 \/ (Index(first, ".") = 0 /\ Index(first, ":") = 0
                              /\ first # Localhost)
        domain == IF noDomain THEN DefaultDomain ELSE first
        rest0 == IF noDomain THEN s ELSE SubSeq(s, i + 1, Len(s))
        rest == IF domain = DefaultDomain /\ Index(rest0, "/") = 0
                THEN OfficialRepoName \o <<"/">> \o rest0 ELSE rest0
        atCut == Cut(rest, "@")
        tagCut == Cut(atCut.before, ":")
        path == tagCut.before
        ok == /\ ValidDomain(domain)
              /\ \A k \in 1..Len(Split(path, "/")) : ValidComponent(Split(path, "/")[k])
              /\ tagCut.found => ValidTag(tagCut.after)
              /\ atCut.found => ValidDigest(atCut.after)
    IN  IF ok
        THEN [ok |-> TRUE,
              ref |-> Ref(domain \o <<"/">> \o path, tagCut.after, atCut.after)]
        ELSE [ok |-> FALSE, ref |-> Ref(<<>>, <<>>, <<>>)]

-----------------------------------------------------------------------------
(* Image relations.                                                        *)

\* type ImageRelation
ImageRelation(targetPath, attribute, imageReference, imageResourceName) ==
    [TargetPath |-> targetPath, Attribute |-> attribute,
     ImageReference |-> imageReference, ImageResourceName |-> imageResourceName]

Range(seq) == {seq[i] : i \in 1..Len(seq)}

\* the element of a set of one element; {F(x) : x \in {e}} computes e once for
\* all uses of x in F(x)
Only(S) == CHOOSE x \in S : TRUE

BoundedSeq(S, n) == UNION {[1..k -> S] : k \in 0..n}

-----------------------------------------------------------------------------
(* AssignResourceNames.                                                    *)

ImagePrefix == <<"i","m","a","g","e","-">>

\* the two maps of AssignResourceNames, both empty
NoNames == [resNameForImageRef |-> <<>>, hasResName |-> {}]

\* the assignments to both maps (first loop, and the end of the second loop's body)
RecordNameForgetTaken(st, imageRef, resName) ==
    [st EXCEPT !.resNameForImageRef = (imageRef :> resName) @@ @]

RecordNameForgetRef(st, imageRef, resName) ==
    [st EXCEPT !.hasResName = @ \cup {resName}]

RecordName(st, imageRef, resName) ==
    [resNameForImageRef |-> (imageRef :> resName) @@ st.resNameForImageRef,
     hasResName |-> st.hasResName \cup {resName}]

\* first loop: check existing ImageResourceName assignments, from relation i on
SeedNothing(rs, i, st) == st

RECURSIVE SeedNames(_, _, _)
SeedNames(rs, i, st) ==
    IF i > Len(rs) THEN st
    ELSE LET resName == rs[i].ImageResourceName IN
         SeedNames(rs, i + 1,
                   IF resName # <<>>
                   THEN RecordName(st, RefString(rs[i].ImageReference), resName)
                   ELSE st)

\* a variant that counts in steps of two
RECURSIVE DisambiguateByTwo(_, _, _, _)
DisambiguateByTwo(repoName, resName, counter, hasResName) ==
    IF resName \in hasResName
    THEN DisambiguateByTwo(repoName,
                           ImagePrefix \o repoName \o <<"-">> \o Itoa(counter + 2),
                           counter + 2, hasResName)
    ELSE resName

\* the for loop that adds "-1", "-2", etc. until the name is not taken
RECURSIVE Disambiguate(_, _, _, _)
Disambiguate(repoName, resName, counter, hasResName) ==
    IF resName \in hasResName
    THEN Disambiguate(repoName,
                      ImagePrefix \o repoName \o <<"-">> \o Itoa(counter + 1),
                      counter + 1, hasResName)
    ELSE resName

\* a variant of the second loop that derives a new name for every relation
RECURSIVE FillNamesAlwaysFresh(_, _, _)
FillNamesAlwaysFresh(rs, i, st) ==
    IF i > Len(rs) THEN rs
    ELSE LET repoName == Base(RefName(rs[i].ImageReference))
             resName == Disambiguate(repoName, ImagePrefix \o repoName, 0, st.hasResName)
         IN  FillNamesAlwaysFresh([rs EXCEPT ![i].ImageResourceName = resName], i + 1,
                 RecordName(st, RefString(rs[i].ImageReference), resName))

\* second loop: fill missing ImageResourceName assignments, from relation i on
RECURSIVE FillNames(_, _, _)
FillNames(rs, i, st) ==
    IF i > Len(rs) THEN rs
    ELSE LET imageRef == RefString(rs[i].ImageReference) IN
         IF imageRef \in DOMAIN st.resNameForImageRef
         THEN FillNames([rs EXCEPT ![i].ImageResourceName = st.resNameForImageRef[imageRef]],
                        i + 1, st)
         ELSE LET repoName == Base(RefName(rs[i].ImageReference))
                  resName == Disambiguate(repoName, ImagePrefix \o repoName, 0,
                                          st.hasResName)
              IN  FillNames([rs EXCEPT ![i].ImageResourceName = resName],
                            i + 1, RecordName(st, imageRef, resName))

\* func (rels ImageRelations) AssignResourceNames()
AssignResourceNames(rs) == FillNames(rs, 1, SeedNames(rs, 1, NoNames))

-----------------------------------------------------------------------------
(* GetValue and BuildLocalizedValues.                                      *)

\* the attribute names
Tag == <<"t","a","g">>
Repository == <<"r","e","p","o","s","i","t","o","r","y">>
Digest == <<"d","i","g","e","s","t">>
Reference == <<"r","e","f","e","r","e","n","c","e">>

\* a variant that returns the empty string without an error
GetValueNoError(rel) ==
    LET ref == rel.ImageReference
        found(v) == [value |-> v, err |-> ""]
    IN  IF rel.Attribute = Reference THEN found(RefString(ref))
        ELSE IF rel.Attribute = Repository THEN found(RefName(ref))
        ELSE IF rel.Attribute = Digest THEN found(ref.digest)
        ELSE IF rel.Attribute = Tag THEN found(ref.tag)
        ELSE found(<<>>)

\* func (rel ImageRelation) GetValue() (string, error)
GetValue(rel) ==
    LET ref == rel.ImageReference
        found(v) == [value |-> v, err |-> ""]
    IN  IF rel.Attribute = Reference THEN found(RefString(ref))
        ELSE IF rel.Attribute = Repository THEN found(RefName(ref))
        ELSE IF rel.Attribute = Digest /\ IsDigested(ref) THEN found(ref.digest)
        ELSE IF rel.Attribute = Tag /\ IsTagged(ref) THEN found(ref.tag)
        ELSE [value |-> <<>>, err |-> "could not find attribute in image reference"]

\* the values of a map[string]any: a string, or a nested map[string]any
StringValue(v) == [type |-> "string", val |-> v]
MapValue(m) == [type |-> "map[string]any", val |-> m]

\* make(map[string]any)
EmptyMap == <<>>

\* target[key] = value
MapSet(target, key, value) == (key :> value) @@ target

\* a variant that empties the map before every nested insert into a new key
RECURSIVE InsertDroppingSiblings(_, _, _)
InsertDroppingSiblings(target, targetPath, value) ==
    LET cut == Cut(targetPath, ".")
        key == cut.before
    IN  IF ~cut.found THEN [err |-> "", target |-> MapSet(target, key, StringValue(value))]
        ELSE LET sub == InsertDroppingSiblings(EmptyMap, cut.after, value)
             IN  [err |-> sub.err, target |-> MapSet(EmptyMap, key, MapValue(sub.target))]

\* a variant that keeps the value that a leaf key already has
RECURSIVE InsertKeepingFirst(_, _, _)
InsertKeepingFirst(target, targetPath, value) ==
    LET cut == Cut(targetPath, ".")
        key == cut.before
    IN  IF ~cut.found
        THEN [err |-> "",
              target |-> IF key \in DOMAIN target THEN target
                         ELSE MapSet(target, key, StringValue(value))]
        ELSE IF key \notin DOMAIN target
        THEN LET sub == InsertKeepingFirst(EmptyMap, cut.after, value)
             IN  [err |-> sub.err, target |-> MapSet(target, key, MapValue(sub.target))]
        ELSE IF target[key].type = "map[string]any"
        THEN LET sub == InsertKeepingFirst(target[key].val, cut.after, value)
             IN  [err |-> sub.err, target |-> MapSet(target, key, MapValue(sub.target))]
        ELSE [err |-> "cannot insert value into subpath of value with type string",
              target |-> target]

\* func insertIntoMapRecursively(target map[string]any, targetPath string, value any) error
\* (the result carries the map as the call leaves it)
RECURSIVE insertIntoMapRecursively(_, _, _)
insertIntoMapRecursively(target, targetPath, value) ==
    LET cut == Cut(targetPath, ".")
        key == cut.before
        subpath == cut.after
    IN  IF ~cut.found
        THEN [err |-> "", target |-> MapSet(target, key, StringValue(value))]
        ELSE IF key \notin DOMAIN target
        THEN \* case nil
             LET sub == insertIntoMapRecursively(EmptyMap, subpath, value)
             IN  [err |-> sub.err, target |-> MapSet(target, key, MapValue(sub.target))]
        ELSE IF target[key].type = "map[string]any"
        THEN LET sub == insertIntoMapRecursively(target[key].val, subpath, value)
             IN  [err |-> sub.err, target |-> MapSet(target, key, MapValue(sub.target))]
        ELSE [err |-> "cannot insert value into subpath of value with type string",
              target |-> target]

\* the loop of BuildLocalizedValues from relation i on; a failure returns nil
RECURSIVE BuildFrom(_, _, _)
BuildFrom(rs, i, out) ==
    IF i > Len(rs) THEN [values |-> out, err |-> ""]
    ELSE LET got == GetValue(rs[i]) IN
         IF got.err # "" THEN [values |-> EmptyMap, err |-> got.err]
         ELSE LET ins == insertIntoMapRecursively(out, rs[i].TargetPath, got.value) IN
              IF ins.err # "" THEN [values |-> EmptyMap, err |-> ins.err]
              ELSE BuildFrom(rs, i + 1, ins.target)

\* func (rels ImageRelations) BuildLocalizedValues() (map[string]any, error)
BuildLocalizedValues(rs) == BuildFrom(rs, 1, EmptyMap)

-----------------------------------------------------------------------------
(* encoding/json for ImageRelations: the struct tags of ImageRelation name *)
(* three string fields; ImageReference has the tag "-" and is left out.    *)

TargetPathKey == <<"t","a","r","g","e","t","-","p","a","t","h">>
AttributeKey == <<"a","t","t","r","i","b","u","t","e">>
ImageResourceNameKey ==
    <<"i","m","a","g","e","-","r","e","s","o","u","r","c","e","-","n","a","m","e">>

\* a nil reference.Named
NilRef == Ref(<<>>, <<>>, <<>>)

\* the characters json.Marshal writes as \u00XX, with their four hex digits
HTMLEscapes == ("<" :> <<"0","0","3","c">>) @@ (">" :> <<"0","0","3","e">>)

\* one character inside a JSON string, as json.Marshal writes it
EscapeCharVerbatim(c) == <<c>>

EscapeChar(c) ==
    IF c = "\"" THEN <<"\\", "\"">>
    ELSE IF c = "\\" THEN <<"\\", "\\">>
    ELSE IF c \in DOMAIN HTMLEscapes THEN <<"\\", "u">> \o HTMLEscapes[c]
    ELSE <<c>>

RECURSIVE EscapeString(_)
EscapeString(s) ==
    IF s = <<>> THEN <<>> ELSE EscapeChar(Head(s)) \o EscapeString(Tail(s))

JSONString(s) == <<"\"">> \o EscapeString(s) \o <<"\"">>

\* one *ImageRelation as a JSON object, fields in declaration order
MarshalRelation(rel) ==
    <<"{">> \o JSONString(TargetPathKey) \o <<":">> \o JSONString(rel.TargetPath)
    \o <<",">> \o JSONString(AttributeKey) \o <<":">> \o JSONString(rel.Attribute)
    \o <<",">> \o JSONString(ImageResourceNameKey) \o <<":">>
    \o JSONString(rel.ImageResourceName) \o <<"}">>

RECURSIVE MarshalElements(_, _)
MarshalElements(rs, i) ==
    IF i > Len(rs) THEN <<>>
    ELSE (IF i > 1 THEN <<",">> ELSE <<>>) \o MarshalRelation(rs[i])
         \o MarshalElements(rs, i + 1)

\* json.Marshal(rels): a nil slice is written as null. The only relation set
\* without elements that is ever marshalled is the nil slice that
\* ParseImageRelations returns when it appends nothing.
Marshal(rs) ==
    IF Len(rs) = 0 THEN <<"n","u","l","l">>
    ELSE <<"[">> \o MarshalElements(rs, 1) \o <<"]">>

\* json.Unmarshal, reading text from position i: a string literal
RECURSIVE ReadStringBody(_, _, _)
ReadStringBody(text, i, acc) ==
    IF i > Len(text) THEN [ok |-> FALSE, val |-> <<>>, next |-> i]
    ELSE IF text[i] = "\"" THEN [ok |-> TRUE, val |-> acc, next |-> i + 1]
    ELSE IF text[i] = "\\"
    THEN IF i + 1 > Len(text) THEN [ok |-> FALSE, val |-> <<>>, next |-> i]
         ELSE IF text[i + 1] \in {"\"", "\\", "/"}
         THEN ReadStringBody(text, i + 2, Append(acc, text[i + 1]))
         ELSE IF text[i + 1] = "u" /\ i + 5 <= Len(text)
                 /\ \E c \in DOMAIN HTMLEscapes : HTMLEscapes[c] = SubSeq(text, i + 2, i + 5)
         THEN ReadStringBody(text, i + 6,
                  Append(acc, CHOOSE c \in DOMAIN HTMLEscapes :
                                  HTMLEscapes[c] = SubSeq(text, i + 2, i + 5)))
         ELSE [ok |-> FALSE, val |-> <<>>, next |-> i]
    ELSE ReadStringBody(text, i + 1, Append(acc, text[i]))

ReadString(text, i) ==
    IF i <= Len(text) /\ text[i] = "\"" THEN ReadStringBody(text, i + 1, <<>>)
    ELSE [ok |-> FALSE, val |-> <<>>, next |-> i]

\* the struct field a key of a JSON object is stored into
SetField(rel, key, value) ==
    IF key = TargetPathKey THEN [rel EXCEPT !.TargetPath = value]
    ELSE IF key = AttributeKey THEN [rel EXCEPT !.Attribute = value]
    ELSE IF key = ImageResourceNameKey THEN [rel EXCEPT !.ImageResourceName = value]
    ELSE rel

\* the members of an object, the first at position i; rel holds the fields read so far
RECURSIVE ReadMembers(_, _, _)
ReadMembers(text, i, rel) ==
    LET key == ReadString(text, i)
        value == ReadString(text, key.next + 1)
        failed == [ok |-> FALSE, val |-> rel, next |-> i]
    IN  IF ~key.ok \/ key.next > Len(text) \/ text[key.next] # ":" \/ ~value.ok
           \/ value.next > Len(text)
        THEN failed
        ELSE IF text[value.next] = ","
        THEN ReadMembers(text, value.next + 1, SetField(rel, key.val, value.val))
        ELSE IF text[value.next] = "}"
        THEN [ok |-> TRUE, val |-> SetField(rel, key.val, value.val),
              next |-> value.next + 1]
        ELSE failed

\* a JSON object into a new ImageRelation
ReadObject(text, i) ==
    LET zero == ImageRelation(<<>>, <<>>, NilRef, <<>>) IN
    IF i + 1 > Len(text) \/ text[i] # "{" THEN [ok |-> FALSE, val |-> zero, next |-> i]
    ELSE IF text[i + 1] = "}" THEN [ok |-> TRUE, val |-> zero, next |-> i + 2]
    ELSE ReadMembers(text, i + 1, zero)

\* the elements of an array, the first at position i
RECURSIVE ReadElements(_, _, _)
ReadElements(text, i, acc) ==
    LET obj == ReadObject(text, i)
        failed == [ok |-> FALSE, val |-> <<>>, next |-> i]
    IN  IF ~obj.ok \/ obj.next > Len(text) THEN failed
        ELSE IF text[obj.next] = ","
        THEN ReadElements(text, obj.next + 1, Append(acc, obj.val))
        ELSE IF text[obj.next] = "]"
        THEN [ok |-> TRUE, val |-> Append(acc, obj.val), next |-> obj.next + 1]
        ELSE failed

\* json.Unmarshal([]byte(relationsJSON), &rels)
Unmarshal(text) ==
    LET failed == [err |-> "invalid JSON", rels |-> <<>>]
        elems == ReadElements(text, 2, <<>>)
    IN  IF text = <<"n","u","l","l">> \/ text = <<"[", "]">>
        THEN [err |-> "", rels |-> <<>>]
        ELSE IF text = <<>> \/ text[1] # "[" THEN failed
        ELSE IF elems.ok /\ elems.next = Len(text) + 1
        THEN [err |-> "", rels |-> elems.val]
        ELSE failed

-----------------------------------------------------------------------------
(* parseImageRelation and ParseImageRelations.                             *)

\* white space for \s and \S of regexp, strings.TrimSpace and strings.Fields
WhiteSpace == {" ", "\t", "\n", "\r", "\f"}

UpperCase == {"A","B","C","D","E","F","G","H","I","J","K","L","M","N","O","P",
              "Q","R","S","T","U","V","W","X","Y","Z"}
LowerCase == {"a","b","c","d","e","f","g","h","i","j","k","l","m","n","o","p",
              "q","r","s","t","u","v","w","x","y","z"}

\* [a-zA-Z_] and [a-zA-Z0-9_]
IdentifierStart == LowerCase \cup UpperCase \cup {"_"}
IdentifierChars == IdentifierStart \cup Range(Digits)

\* strings.TrimSpace
RECURSIVE TrimLeft(_)
TrimLeft(s) == IF s # <<>> /\ Head(s) \in WhiteSpace THEN TrimLeft(Tail(s)) ELSE s

RECURSIVE TrimRight(_)
TrimRight(s) ==
    IF s # <<>> /\ s[Len(s)] \in WhiteSpace THEN TrimRight(SubSeq(s, 1, Len(s) - 1))
    ELSE s

TrimSpace(s) == TrimRight(TrimLeft(s))

\* the first position from i on that holds no white space (Len(s) + 1 if none)
RECURSIVE SkipSpace(_, _)
SkipSpace(s, i) ==
    IF i <= Len(s) /\ s[i] \in WhiteSpace THEN SkipSpace(s, i + 1) ELSE i

\* the first position from i on that holds white space (Len(s) + 1 if none)
RECURSIVE SkipNonSpace(_, _)
SkipNonSpace(s, i) ==
    IF i <= Len(s) /\ s[i] \notin WhiteSpace THEN SkipNonSpace(s, i + 1) ELSE i

\* strings.Fields
RECURSIVE FieldsFrom(_, _)
FieldsFrom(s, i) ==
    LET begin == SkipSpace(s, i)
        end == SkipNonSpace(s, begin)
    IN  IF begin > Len(s) THEN <<>>
        ELSE <<SubSeq(s, begin, end - 1)>> \o FieldsFrom(s, end)

Fields(s) == FieldsFrom(s, 1)

\* strings.ContainsAny
ContainsAny(s, chars) == \E i \in 1..Len(s) : s[i] \in chars

\* s holds the literal at position i
HasAt(s, i, literal) ==
    /\ i + Len(literal) - 1 <= Len(s)
    /\ SubSeq(s, i, i + Len(literal) - 1) = literal

\* the two regular expressions that replaceUnlessError is called with
variableReferenceRx == "variableReferenceRx"
commandSubstitutionRx == "commandSubstitutionRx"

\* the first position from i on that holds no character of [a-zA-Z0-9_]
RECURSIVE SkipIdentifier(_, _)
SkipIdentifier(s, i) ==
    IF i <= Len(s) /\ s[i] \in IdentifierChars THEN SkipIdentifier(s, i + 1) ELSE i

\* where the match of rx that begins at position i of s ends; 0 if none begins there
\*   variableReferenceRx    \$\{([a-zA-Z_][a-zA-Z0-9_]*)\}
\*   commandSubstitutionRx  \$\(([^)]*)\)
MatchEnd(rx, s, i) ==
    IF rx = variableReferenceRx
    THEN IF HasAt(s, i, <<"$", "{">>) /\ i + 2 <= Len(s) /\ s[i + 2] \in IdentifierStart
         THEN LET j == SkipIdentifier(s, i + 3)
              IN  IF j <= Len(s) /\ s[j] = "}" THEN j ELSE 0
         ELSE 0
    ELSE IF HasAt(s, i, <<"$", "(">>)
         THEN LET k == Index(SubSeq(s, i + 2, Len(s)), ")")
              IN  IF k = 0 THEN 0 ELSE i + 1 + k
         ELSE 0

\* rx.FindStringSubmatch(matched)[1]: the text between the brackets
Submatch(matched) == SubSeq(matched, 3, Len(matched) - 1)

\* one step of a call of parseImageRelation that is seen from outside it or
\* that one of its stages begins with:
\*   "getenv"     osext.NeedGetenv(arg)
\*   "command"    the second callback is entered with the command text arg
\*   "exec"       a subprocess is spawned for the command text arg
\*   "match"      imageRelationRx is matched against arg
\*   "reference"  reference.ParseNormalizedNamed(arg)
Event(op, arg) == [op |-> op, arg |-> arg]

\* a lookup where a missing variable is the empty string
GetenvOrEmpty(env, key) ==
    IF key \in DOMAIN env THEN [val |-> env[key], err |-> ""]
    ELSE [val |-> <<>>, err |-> ""]

\* osext.NeedGetenv: an unset and an empty variable are both missing
NeedGetenv(env, key) ==
    IF key \in DOMAIN env /\ env[key] # <<>> THEN [val |-> env[key], err |-> ""]
    ELSE [val |-> <<>>, err |-> "environment variable is not set"]

\* the files that cat can read, in the working directory of the process
Files ==
    (<<"v">> :> <<"p","g",":","2","\n">>)
    @@ (<<"t">> :> <<"$","{","T","}","$","(","i","d",")","\n">>)

\* strings.Join(words, " ")
RECURSIVE Join(_)
Join(words) ==
    IF Len(words) = 0 THEN <<>>
    ELSE IF Len(words) = 1 THEN words[1]
    ELSE words[1] \o <<" ">> \o Join(Tail(words))

\* cmd.Output() of exec.CommandContext(ctx, words[0], words[1:]...): the programs
\* cat, echo and false are installed, nothing else is
Output(words) ==
    IF words[1] = <<"c","a","t">>
    THEN IF Len(words) = 2 /\ words[2] \in DOMAIN Files
         THEN [stdout |-> Files[words[2]], err |-> ""]
         ELSE [stdout |-> <<>>, err |-> "exit status 1"]
    ELSE IF words[1] = <<"e","c","h","o">>
    THEN [stdout |-> Join(Tail(words)) \o <<"\n">>, err |-> ""]
    ELSE IF words[1] = <<"f","a","l","s","e">>
    THEN [stdout |-> <<>>, err |-> "exit status 1"]
    ELSE [stdout |-> <<>>, err |-> "executable file not found in $PATH"]

\* the characters that strings.ContainsAny(match[1], ...) looks for: the six
\* brackets and the two quotes (the ninth, the backtick, is in no string of
\* the model and cannot be written in a string of this language)
ShellSyntax == {"(", ")", "[", "]", "{", "}", "'", "\""}

\* the callbacks that parseImageRelation hands to replaceUnlessError, by rx;
\* submatch is match[1]
Replace(rx, submatch, env) ==
    IF rx = variableReferenceRx
    THEN LET got == NeedGetenv(env, submatch)
         IN  [replacement |-> TrimSpace(got.val), err |-> got.err,
              events |-> <<Event("getenv", submatch)>>]
    ELSE LET words == Fields(submatch)
             entered == <<Event("command", submatch)>>
         IN  IF ContainsAny(submatch, ShellSyntax)
             THEN [replacement |-> <<>>, events |-> entered,
                   err |-> "refusing to execute command which appears to contain shell syntax"]
             ELSE IF Len(words) = 0
             THEN [replacement |-> <<>>, events |-> entered,
                   err |-> "refusing to execute command which contains no command"]
             ELSE [replacement |-> TrimSpace(Output(words).stdout),
                   err |-> Output(words).err,
                   events |-> entered \o <<Event("exec", submatch)>>]

\* where the leftmost match of rx from position i of s on begins
\* (Len(s) + 1 if there is none)
FirstMatch(rx, s, i) ==
    LET starts == {j \in i..Len(s) : MatchEnd(rx, s, j) # 0}
    IN  IF starts = {} THEN Len(s) + 1
        ELSE CHOOSE j \in starts : \A k \in starts : j <= k

\* a variant that goes on matching inside the text it has just put in
RECURSIVE ReplaceRescanning(_, _, _, _, _)
ReplaceRescanning(rx, input, i, env, acc) ==
    Only({ IF begin > Len(input)
           THEN [acc EXCEPT !.result = @ \o SubSeq(input, i, Len(input))]
           ELSE Only({
                IF acc.retainedError # ""
                THEN [acc EXCEPT !.result = @ \o SubSeq(input, i, Len(input))]
                ELSE IF r.err = ""
                THEN ReplaceRescanning(rx,
                         SubSeq(input, 1, begin - 1) \o r.replacement
                             \o SubSeq(input, MatchEnd(rx, input, begin) + 1, Len(input)),
                         begin, env,
                         [acc EXCEPT !.result = @ \o SubSeq(input, i, begin - 1),
                                     !.events = @ \o r.events])
                ELSE [acc EXCEPT !.result = @ \o SubSeq(input, i, Len(input)),
                                 !.retainedError = r.err,
                                 !.events = @ \o r.events] :
                r \in {Replace(rx,
                           Submatch(SubSeq(input, begin, MatchEnd(rx, input, begin))),
                           env)} }) :
           begin \in {FirstMatch(rx, input, i)} })

\* a variant that goes on calling the closure's replacement after an error and
\* keeps the error of the last failure
RECURSIVE ReplaceWithoutShortCircuit(_, _, _, _, _)
ReplaceWithoutShortCircuit(rx, input, i, env, acc) ==
    Only({ IF begin > Len(input)
           THEN [acc EXCEPT !.result = @ \o SubSeq(input, i, Len(input))]
           ELSE Only({
                Only({
                     IF r.err = ""
                     THEN ReplaceWithoutShortCircuit(rx, input, end + 1, env,
                              [acc EXCEPT !.result = @ \o SubSeq(input, i, begin - 1)
                                                       \o r.replacement,
                                          !.events = @ \o r.events])
                     ELSE ReplaceWithoutShortCircuit(rx, input, end + 1, env,
                              [acc EXCEPT !.result = @ \o SubSeq(input, i, end),
                                          !.retainedError = r.err,
                                          !.events = @ \o r.events]) :
                     r \in {Replace(rx, Submatch(SubSeq(input, begin, end)), env)} }) :
                end \in {MatchEnd(rx, input, begin)} }) :
           begin \in {FirstMatch(rx, input, i)} })

\* rx.ReplaceAllStringFunc(input, ...) with the closure of replaceUnlessError,
\* from position i of input on; acc holds result, retainedError and the events
\* of the callbacks so far. The text before the leftmost match is copied, the
\* closure is called with the match, and the search goes on behind the match.
RECURSIVE ReplaceFrom(_, _, _, _, _)
ReplaceFrom(rx, input, i, env, acc) ==
    Only({ IF begin > Len(input)
           THEN [acc EXCEPT !.result = @ \o SubSeq(input, i, Len(input))]
           ELSE Only({
                IF acc.retainedError # ""
                THEN \* stop replacing after first error
                     ReplaceFrom(rx, input, end + 1, env,
                         [acc EXCEPT !.result = @ \o SubSeq(input, i, end)])
                ELSE Only({
                     IF r.err = ""
                     THEN ReplaceFrom(rx, input, end + 1, env,
                              [acc EXCEPT !.result = @ \o SubSeq(input, i, begin - 1)
                                                       \o r.replacement,
                                          !.events = @ \o r.events])
                     ELSE ReplaceFrom(rx, input, end + 1, env,
                              [acc EXCEPT !.result = @ \o SubSeq(input, i, end),
                                          !.retainedError = r.err,
                                          !.events = @ \o r.events]) :
                     r \in {Replace(rx, Submatch(SubSeq(input, begin, end)), env)} }) :
                end \in {MatchEnd(rx, input, begin)} }) :
           begin \in {FirstMatch(rx, input, i)} })

\* func replaceUnlessError(rx, input, replace) (string, error)
replaceUnlessError(rx, input, env) ==
    ReplaceFrom(rx, input, 1, env, [result |-> <<>>, retainedError |-> "", events |-> <<>>])

ValuesPrefix == <<".","V","a","l","u","e","s",".">>
Is == <<"i","s">>
Of == <<"o","f">>
AttributeNames == {Repository, Tag, Digest, Reference}

\* a variant that takes any word for the attribute
FindImageRelationAnyAttribute(s) ==
    LET pathEnd == SkipNonSpace(s, Len(ValuesPrefix) + 1)
        isStart == SkipSpace(s, pathEnd)
        attrStart == SkipSpace(s, isStart + 2)
        attrEnd == SkipNonSpace(s, attrStart)
        ofStart == SkipSpace(s, attrEnd)
        refStart == SkipSpace(s, ofStart + 2)
    IN  [ok |-> /\ HasAt(s, 1, ValuesPrefix) /\ HasAt(s, isStart, Is)
                /\ HasAt(s, ofStart, Of) /\ refStart <= Len(s),
         path |-> SubSeq(s, Len(ValuesPrefix) + 1, pathEnd - 1),
         attribute |-> SubSeq(s, attrStart, attrEnd - 1),
         ref |-> SubSeq(s, refStart, Len(s))]

\* imageRelationRx.FindStringSubmatch(s), with match[1], match[2] and match[3]:
\*   ^\.Values\.(\S+)\s+is\s+(repository|tag|digest|reference)\s+of\s+(\S+)$
FindImageRelation(s) ==
    LET pathStart == Len(ValuesPrefix) + 1
        pathEnd == SkipNonSpace(s, pathStart)
        isStart == SkipSpace(s, pathEnd)
        isEnd == isStart + Len(Is)
        attrStart == SkipSpace(s, isEnd)
        attrEnd == SkipNonSpace(s, attrStart)
        ofStart == SkipSpace(s, attrEnd)
        ofEnd == ofStart + Len(Of)
        refStart == SkipSpace(s, ofEnd)
        refEnd == SkipNonSpace(s, refStart)
        ok == /\ HasAt(s, 1, ValuesPrefix)
              /\ pathEnd > pathStart
              /\ isStart > pathEnd /\ HasAt(s, isStart, Is)
              /\ attrStart > isEnd
              /\ SubSeq(s, attrStart, attrEnd - 1) \in AttributeNames
              /\ ofStart > attrEnd /\ HasAt(s, ofStart, Of)
              /\ refStart > ofEnd
              /\ refEnd > refStart /\ refEnd = Len(s) + 1
    IN  IF ok
        THEN [ok |-> TRUE,
              path |-> SubSeq(s, pathStart, pathEnd - 1),
              attribute |-> SubSeq(s, attrStart, attrEnd - 1),
              ref |-> SubSeq(s, refStart, refEnd - 1)]
        ELSE [ok |-> FALSE, path |-> <<>>, attribute |-> <<>>, ref |-> <<>>]

\* the record of one call of parseImageRelation: its argument, the value of
\* input after each of the two replacements it came to, its events, and what
\* it returned
Call(input, afterVariables, afterCommands, events, rel, e) ==
    [input |-> input, afterVariables |-> afterVariables,
     afterCommands |-> afterCommands, events |-> events, rel |-> rel, err |-> e]

\* parseImageRelation from "parse relation" on, with the match of imageRelationRx
ParseRelation(input, variables, commands, match) ==
    LET zero == ImageRelation(<<>>, <<>>, NilRef, <<>>)
        named == ParseNormalizedNamed(match.ref)
        matching == <<Event("match", commands.result)>>
        parsing == <<Event("reference", match.ref)>>
    IN  IF ~match.ok
        THEN Call(input, variables.result, commands.result,
                  variables.events \o commands.events \o matching,
                  zero, "does not match expected format")
        ELSE IF ~named.ok
        THEN Call(input, variables.result, commands.result,
                  variables.events \o commands.events \o matching \o parsing,
                  zero, "invalid reference format")
        ELSE Call(input, variables.result, commands.result,
                  variables.events \o commands.events \o matching \o parsing,
                  ImageRelation(match.path, match.attribute, named.ref, <<>>), "")

\* parseImageRelation from the result of "resolve command substitutions" on
AfterCommands(input, variables, commands) ==
    IF commands.retainedError # ""
    THEN Call(input, variables.result, commands.result,
              variables.events \o commands.events,
              ImageRelation(<<>>, <<>>, NilRef, <<>>), commands.retainedError)
    ELSE Only({ ParseRelation(input, variables, commands, match) :
                    match \in {FindImageRelation(commands.result)} })

\* parseImageRelation from the result of "resolve variable references" on
AfterVariables(env, input, variables) ==
    IF variables.retainedError # ""
    THEN Call(input, variables.result, <<>>, variables.events,
              ImageRelation(<<>>, <<>>, NilRef, <<>>), variables.retainedError)
    ELSE Only({ AfterCommands(input, variables, commands) :
                    commands \in {replaceUnlessError(commandSubstitutionRx,
                                                     variables.result, env)} })

\* func parseImageRelation(ctx, input) (ImageRelation, error)
parseImageRelation(env, input) ==
    Only({ AfterVariables(env, input, variables) :
               variables \in {replaceUnlessError(variableReferenceRx, input, env)} })

Separators == {",", "\n"}

\* a variant that splits at commas only
RECURSIVE SplitCommas(_)
SplitCommas(s) ==
    IF Index(s, ",") = 0 THEN <<s>>
    ELSE <<SubSeq(s, 1, Index(s, ",") - 1)>>
         \o SplitCommas(SubSeq(s, Index(s, ",") + 1, Len(s)))

\* imageRelationSeparatorRx.Split(input, -1), for the separator ,|\n
RECURSIVE SplitSeparators(_)
SplitSeparators(s) ==
    IF \A i \in 1..Len(s) : s[i] \notin Separators THEN <<s>>
    ELSE LET i == CHOOSE k \in 1..Len(s) :
                      s[k] \in Separators /\ \A j \in 1..(k - 1) : s[j] \notin Separators
         IN  <<SubSeq(s, 1, i - 1)>> \o SplitSeparators(SubSeq(s, i + 1, Len(s)))

\* a variant of the inner loop that leaves a failing segment out and goes on
RECURSIVE ParseSegmentsSkipFailures(_, _, _, _)
ParseSegmentsSkipFailures(env, segments, k, acc) ==
    IF k > Len(segments) THEN acc
    ELSE IF TrimSpace(segments[k]) = <<>>
    THEN ParseSegmentsSkipFailures(env, segments, k + 1, acc)
    ELSE Only({ ParseSegmentsSkipFailures(env, segments, k + 1,
                    [result |-> IF call.err = "" THEN Append(acc.result, call.rel)
                                ELSE acc.result,
                     err |-> IF acc.err # "" THEN acc.err
                             ELSE IF call.err = "" THEN ""
                             ELSE "while parsing --image-relation: " \o call.err,
                     calls |-> Append(acc.calls, call)]) :
                call \in { parseImageRelation(env, segment) :
                             segment \in {TrimSpace(segments[k])} } })

\* the inner loop of ParseImageRelations, from segment k of one input on; acc
\* holds result, the error that ended the loops, and the calls made so far
RECURSIVE ParseSegmentsFrom(_, _, _, _)
ParseSegmentsFrom(env, segments, k, acc) ==
    IF acc.err # "" \/ k > Len(segments) THEN acc
    ELSE IF TrimSpace(segments[k]) = <<>>
    THEN \* allow e.g. trailing comma at the end of a list
         ParseSegmentsFrom(env, segments, k + 1, acc)
    ELSE Only({ IF call.err # ""
                THEN [result |-> <<>>,
                      err |-> "while parsing --image-relation: " \o call.err,
                      calls |-> Append(acc.calls, call)]
                ELSE ParseSegmentsFrom(env, segments, k + 1,
                         [acc EXCEPT !.result = Append(@, call.rel),
                                     !.calls = Append(@, call)]) :
                call \in { parseImageRelation(env, segment) :
                             segment \in {TrimSpace(segments[k])} } })

\* the outer loop of ParseImageRelations, from input n on
RECURSIVE ParseInputsFrom(_, _, _, _)
ParseInputsFrom(env, ins, n, acc) ==
    IF acc.err # "" \/ n > Len(ins) THEN acc
    ELSE Only({ ParseInputsFrom(env, ins, n + 1, next) :
                next \in { ParseSegmentsFrom(env, segments, 1, acc) :
                              segments \in {SplitSeparators(ins[n])} } })

\* func ParseImageRelations(ctx, inputs) (ImageRelations, error)
ParseImageRelations(env, ins) ==
    ParseInputsFrom(env, ins, 1, [result |-> <<>>, err |-> "", calls |-> <<>>])

-----------------------------------------------------------------------------
(* AsOCMResources and the component that bundle renders.                   *)
(* Strings that the code only compares or copies as a whole (resource and  *)
(* access types, label names, error messages) are TLA+ strings.            *)

\* type OCMResourceDeclaration
OCMResourceDeclaration(name, type, version, labels, access, input) ==
    [Name |-> name, Type |-> type, Version |-> version, Labels |-> labels,
     Access |-> access, Input |-> input]

\* type OCMLabel; Value is any YAML value, with its dynamic type
OCMLabel(name, value) == [Name |-> name, Value |-> value]

GitLocationLabelName == "cloud.sap/git-location"
ImageRelationsLabelName == "cloud.sap/image-relations"

\* the loop that fills imageRefForResourceName, from relation i on
RECURSIVE ImageRefForResourceName(_, _, _)
ImageRefForResourceName(rs, i, m) ==
    IF i > Len(rs) THEN m
    ELSE ImageRefForResourceName(rs, i + 1,
             (rs[i].ImageResourceName :> rs[i].ImageReference) @@ m)

\* the keys in descending order
RECURSIVE SortedDescending(_)
SortedDescending(keys) ==
    IF keys = {} THEN <<>>
    ELSE LET max == CHOOSE k \in keys : \A other \in keys \ {k} : StrLess(other, k)
         IN  <<max>> \o SortedDescending(keys \ {max})

\* slices.Sorted(maps.Keys(...))
RECURSIVE Sorted(_)
Sorted(keys) ==
    IF keys = {} THEN <<>>
    ELSE LET min == CHOOSE k \in keys : \A other \in keys \ {k} : StrLess(k, other)
         IN  <<min>> \o Sorted(keys \ {min})

\* an access that points at the repository only
AccessOfRepository(imageRef) ==
    [type |-> "ociArtifact", imageReference |-> RefName(imageRef)]

\* the Access of an image resource
AccessOf(imageRef) ==
    [type |-> "ociArtifact", imageReference |-> RefString(imageRef)]

\* the resource rendered for resName
ImageResource(resName, imageRef, version) ==
    OCMResourceDeclaration(resName, "ociImage",
        IF IsTagged(imageRef) THEN imageRef.tag ELSE version,
        <<>>, AccessOf(imageRef), <<>>)

\* AsOCMResources after its check for the empty set
RenderResources(rs, version) ==
    LET named == AssignResourceNames(rs)
        refs == ImageRefForResourceName(named, 1, <<>>)
        names == Sorted(DOMAIN refs)
    IN  [rels |-> named,
         resources |-> [k \in 1..Len(names) |->
                            ImageResource(names[k], refs[names[k]], version)],
         imageRelationsJSON |-> Marshal(named),
         err |-> ""]

\* a variant without the check for the empty set
AsOCMResourcesOfAnySet(rs, version) == RenderResources(rs, version)

\* func (rels ImageRelations) AsOCMResources(bundleVersion string)
\* (the result carries rels as the call leaves it)
AsOCMResources(rs, version) ==
    IF Len(rs) = 0
    THEN [rels |-> rs, resources |-> <<>>, imageRelationsJSON |-> <<"[", "]">>,
          err |-> ""]
    ELSE RenderResources(rs, version)

ChartName == <<"c">>
HelmChartPrefix == <<"h","e","l","m","-","c","h","a","r","t","-">>

\* func (c HelmChart) AsOCMResource(), for a chart inside or outside a Git checkout
ChartResource(version, gitLocationJSON) ==
    OCMResourceDeclaration(HelmChartPrefix \o ChartName, "helmChart", version,
        IF gitLocationJSON = <<>> THEN <<>>
        ELSE <<OCMLabel(GitLocationLabelName, StringValue(gitLocationJSON))>>,
        <<>>, [type |-> "dir"])

-----------------------------------------------------------------------------
(* unbundle.                                                               *)

\* type OCMResourceInfo, type OCMResourceAccess
OCMResourceInfo(name, version, type, labels, access) ==
    [Name |-> name, Version |-> version, Type |-> type, Labels |-> labels,
     Access |-> access]

OCMResourceAccess(type, imageReference) ==
    [Type |-> type, ImageReference |-> imageReference]

\* what `ocm get resources -o json` reports for a resource of the component
\* version built from the component constructor: a directory input is stored
\* as a local blob, an access is kept as declared
ResourceInfoOf(decl) ==
    OCMResourceInfo(decl.Name, decl.Version, decl.Type, decl.Labels,
        IF DOMAIN decl.Access = {}
        THEN OCMResourceAccess("localBlob", <<>>)
        ELSE OCMResourceAccess(decl.Access.type, decl.Access.imageReference))

\* func GetOCMResources(componentVersionRef string)
GetOCMResources(decls) == [k \in 1..Len(decls) |-> ResourceInfoOf(decls[k])]

\* a variant that takes the first of several matching resources
FindFirstWith(r, match) ==
    LET result == SelectSeq(r, LAMBDA res : res \in match)
    IN  IF Len(result) = 0
        THEN [res |-> OCMResourceInfo(<<>>, <<>>, "", <<>>, OCMResourceAccess("", <<>>)),
              err |-> "did not find any resource"]
        ELSE [res |-> result[1], err |-> ""]

\* func (r OCMResourceInfoSet) FindExactlyOneWith(description, match);
\* match is given as the set of the resources it holds for
FindExactlyOneWith(r, match) ==
    LET result == SelectSeq(r, LAMBDA res : res \in match)
        none == OCMResourceInfo(<<>>, <<>>, "", <<>>, OCMResourceAccess("", <<>>))
    IN  IF Len(result) = 0
        THEN [res |-> none, err |-> "did not find any resource"]
        ELSE IF Len(result) = 1 THEN [res |-> result[1], err |-> ""]
        ELSE [res |-> none, err |-> "expected 1 resource, but found more"]

\* the loop over res.Labels that fills resLabels, from label i on
RECURSIVE ResLabels(_, _, _)
ResLabels(labels, i, m) ==
    IF i > Len(labels) THEN m
    ELSE ResLabels(labels, i + 1, (labels[i].Name :> labels[i].Value) @@ m)

\* the loop that resolves ImageResourceName back into ImageReference, from
\* relation i on
RECURSIVE ResolveFrom(_, _, _)
ResolveFrom(rs, i, infos) ==
    IF i > Len(rs) THEN [rels |-> rs, err |-> ""]
    ELSE LET resName == rs[i].ImageResourceName
             found == FindExactlyOneWith(infos,
                          {r \in Range(infos) : r.Name = resName})
             res == found.res
             parsed == ParseNormalizedNamed(res.Access.ImageReference)
         IN  IF found.err # ""
             THEN [rels |-> rs, err |-> "while resolving image relations: " \o found.err]
             ELSE IF res.Type # "ociImage" \/ res.Access.Type # "ociArtifact"
                     \/ res.Access.ImageReference = <<>>
             THEN [rels |-> rs,
                   err |-> "while resolving image relations: resource does not contain an OCI image reference"]
             ELSE IF ~parsed.ok
             THEN [rels |-> rs, err |-> "could not parse image reference"]
             ELSE ResolveFrom([rs EXCEPT ![i].ImageReference = parsed.ref], i + 1, infos)

\* func unbundle(cmd, args), once the resources are enumerated and the chart
\* resource is unpacked: what it reads from the label, resolves and writes
UnbundleRelations(infos) ==
    LET chart == FindExactlyOneWith(infos,
                     {r \in Range(infos) : r.Type = "helmChart"})
        resLabels == ResLabels(chart.res.Labels, 1, <<>>)
        parsed == Unmarshal(resLabels[ImageRelationsLabelName].val)
        resolved == ResolveFrom(parsed.rels, 1, infos)
        built == BuildLocalizedValues(resolved.rels)
        failed(rs, e) == [rels |-> rs, values |-> EmptyMap, written |-> FALSE, err |-> e]
    IN  IF chart.err # "" THEN failed(<<>>, chart.err)
        ELSE IF ImageRelationsLabelName \notin DOMAIN resLabels
        THEN failed(<<>>, "could not unpack resource: missing required label")
        ELSE IF resLabels[ImageRelationsLabelName].type # "string"
        THEN failed(<<>>, "could not read label: expected string value")
        ELSE IF parsed.err # ""
        THEN failed(<<>>, "could not read label: " \o parsed.err)
        ELSE IF resolved.err # "" THEN failed(resolved.rels, resolved.err)
        ELSE IF built.err # ""
        THEN failed(resolved.rels, "could not build localized-values.yaml: " \o built.err)
        ELSE [rels |-> resolved.rels, values |-> built.values, written |-> TRUE,
              err |-> ""]

-----------------------------------------------------------------------------
(* The Helm chart of bundle. A chart directory is a record of what the     *)
(* code reads below the chart path: ChartYAML and ChartLock hold the       *)
(* parsed file in a sequence of length one, or nothing when the file       *)
(* cannot be read; charts holds the entries of charts/ likewise; git is    *)
(* what TryGetGitLocation finds.                                           *)

\* type HelmChart without ChartPath
HelmChart(apiVersion, name, version, dependencies) ==
    [APIVersion |-> apiVersion, Name |-> name, Version |-> version,
     Dependencies |-> dependencies]

\* type DeclaredChartDependency, type ComputedChartDependency
ChartDependency(name, repository, version) ==
    [Name |-> name, Repository |-> repository, Version |-> version]

\* an entry of charts/
DirEntry(name, isRegular) == [Name |-> name, IsRegular |-> isRegular]

\* func ParseHelmChartYAML(chartPath string) (HelmChart, error)
ParseHelmChartYAML(dir) ==
    IF dir.ChartYAML = <<>>
    THEN [chart |-> HelmChart("", <<>>, <<>>, <<>>),
          err |-> "open Chart.yaml: no such file or directory"]
    ELSE [chart |-> dir.ChartYAML[1], err |-> ""]

\* the loops that fill declaredSet and computedSet: the last dependency of a
\* name is the one kept
RECURSIVE DependencySet(_, _, _)
DependencySet(deps, i, m) ==
    IF i > Len(deps) THEN m
    ELSE DependencySet(deps, i + 1, (deps[i].Name :> deps[i]) @@ m)

\* func validateDependencyCoherence(declaredDeps, computedDeps) error
\* (which of several disagreements is reported depends on the order in which
\* Go ranges over the maps; the text of the error is not modelled)
validateDependencyCoherence(declaredDeps, computedDeps) ==
    LET declaredSet == DependencySet(declaredDeps, 1, <<>>)
        computedSet == DependencySet(computedDeps, 1, <<>>)
    IN  IF \E depName \in DOMAIN declaredSet :
               \/ depName \notin DOMAIN computedSet
               \/ computedSet[depName].Repository # declaredSet[depName].Repository
        THEN "Chart.yaml declares a dependency that Chart.lock does not have in this form"
        ELSE IF DOMAIN computedSet \ DOMAIN declaredSet # {}
        THEN "Chart.lock declares a dependency that Chart.yaml does not have"
        ELSE ""

\* fmt.Sprintf("%s-%s.tgz", dep.Name, dep.Version)
TarballName(dep) == dep.Name \o <<"-">> \o dep.Version \o <<".", "t", "g", "z">>

\* the loop over the entries of charts/, from entry i on, and the loop over
\* what is left of expectedFiles after it
RECURSIVE CheckEntries(_, _, _)
CheckEntries(entries, i, expectedFiles) ==
    IF i > Len(entries)
    THEN IF expectedFiles # {}
         THEN "while validating subcharts: did not find expected file"
         ELSE ""
    ELSE IF ~entries[i].IsRegular
    THEN "while validating subcharts: expected only regular files"
    ELSE IF entries[i].Name \notin expectedFiles
    THEN "while validating subcharts: found unexpected file"
    ELSE CheckEntries(entries, i + 1, expectedFiles \ {entries[i].Name})

\* func (c HelmChart) ValidateDependencies() error
ValidateDependencies(c, dir) ==
    LET chartLock == IF dir.ChartLock = <<>> THEN <<>> ELSE dir.ChartLock[1]
        coherence == validateDependencyCoherence(c.Dependencies, chartLock)
        expectedFiles ==
            IF Len(c.Dependencies) > 0
            THEN {TarballName(chartLock[k]) : k \in 1..Len(chartLock)}
            ELSE {}
    IN  IF c.APIVersion = "v1"
        THEN "cannot validate chart dependencies with apiVersion: v1"
        ELSE IF c.APIVersion # "v2"
        THEN "cannot validate chart dependencies (this tool only supports v2)"
        ELSE IF Len(c.Dependencies) > 0 /\ dir.ChartLock = <<>>
        THEN "open Chart.lock: no such file or directory"
        ELSE IF Len(c.Dependencies) > 0 /\ coherence # ""
        THEN "Chart.yaml and Chart.lock do not agree: " \o coherence
        ELSE IF dir.charts = <<>>
        THEN "open charts: no such file or directory"
        ELSE CheckEntries(dir.charts[1], 1, expectedFiles)

GitLocationJSON == <<"{", "}">>

\* func (c HelmChart) AsOCMResource() (OCMResourceDeclaration, error)
AsOCMResource(c, dir) ==
    LET decl == OCMResourceDeclaration(HelmChartPrefix \o c.Name, "helmChart",
                    c.Version, <<>>, <<>>, [type |-> "dir"])
    IN  IF dir.git = "error"
        THEN [decl |-> OCMResourceDeclaration(<<>>, "", <<>>, <<>>, <<>>, <<>>),
              err |-> "could not run git"]
        ELSE IF dir.git = "some"
        THEN [decl |-> [decl EXCEPT !.Labels =
                           <<OCMLabel(GitLocationLabelName,
                                      StringValue(GitLocationJSON))>>],
              err |-> ""]
        ELSE [decl |-> decl, err |-> ""]

-----------------------------------------------------------------------------
(* The subcommands bundle and unbundle as a whole. Their results carry the  *)
(* steps that were entered, the last of which is the one that failed when  *)
(* err is not empty.                                                       *)

\* a run of bundle that ends with the error e in the last of the entered steps
BundleFailed(entered, parsed, e) ==
    [steps |-> entered, calls |-> parsed.calls, version |-> <<>>, rels |-> <<>>,
     resources |-> <<>>, imageRelationsJSON |-> <<>>, component |-> <<>>,
     printed |-> FALSE, err |-> e]

NotParsed == [result |-> <<>>, err |-> "", calls |-> <<>>]

\* a variant that puts no label on the chart resource when there is no relation
PrintedOmittingEmptyLabel(c, chartResource, parsed, out) ==
    [steps |-> <<"ParseImageRelations", "AsOCMResources", "Marshal", "Print">>,
     calls |-> parsed.calls, version |-> c.Version, rels |-> out.rels,
     resources |-> out.resources, imageRelationsJSON |-> out.imageRelationsJSON,
     component |->
         <<[chartResource EXCEPT !.Labels =
               IF out.rels = <<>> THEN @
               ELSE Append(@, OCMLabel(ImageRelationsLabelName,
                                       StringValue(out.imageRelationsJSON)))]>>
         \o out.resources,
     printed |-> TRUE, err |-> ""]

\* the component that bundle prints, and what it was made from
Printed(c, chartResource, parsed, out) ==
    [steps |-> <<"ParseImageRelations", "AsOCMResources", "Marshal", "Print">>,
     calls |-> parsed.calls, version |-> c.Version, rels |-> out.rels,
     resources |-> out.resources, imageRelationsJSON |-> out.imageRelationsJSON,
     component |->
         <<[chartResource EXCEPT !.Labels =
               Append(@, OCMLabel(ImageRelationsLabelName,
                                  StringValue(out.imageRelationsJSON)))]>>
         \o out.resources,
     printed |-> TRUE, err |-> ""]

\* bundleOpts.Run from the result of ParseImageRelations on
RenderParsed(c, chartResource, parsed) ==
    IF parsed.err # ""
    THEN BundleFailed(<<"ParseImageRelations">>, parsed, parsed.err)
    ELSE Only({ IF out.err # ""
                THEN BundleFailed(<<"ParseImageRelations", "AsOCMResources">>,
                                  parsed, out.err)
                ELSE Printed(c, chartResource, parsed, out) :
                out \in {AsOCMResources(parsed.result, c.Version)} })

\* a variant that renders the component of the relations parsed so far
RenderAnyway(c, chartResource, env, ins) ==
    Only({ Only({ Printed(c, chartResource, parsed, out) :
                      out \in {AsOCMResources(parsed.result, c.Version)} }) :
               parsed \in {ParseImageRelations(env, ins)} })

\* bundleOpts.Run once the chart resource is prepared: the image resources,
\* the label on the chart resource, the component and its output
Render(c, chartResource, env, ins) ==
    Only({ RenderParsed(c, chartResource, parsed) :
               parsed \in {ParseImageRelations(env, ins)} })

\* func (opts *bundleOpts) Run(cmd *cobra.Command, args []string) error
Run(o, dir, env, ins) ==
    LET parsedChart == ParseHelmChartYAML(dir)
        chart == parsedChart.chart
        invalid == ValidateDependencies(chart, dir)
        chartResource == AsOCMResource(chart, dir)
        rendered == Render(chart, chartResource.decl, env, ins)
        before == <<"ParseHelmChartYAML", "ValidateDependencies", "AsOCMResource">>
    IN  IF o.ComponentNamePrefix = <<>>
        THEN BundleFailed(<<>>, NotParsed, "no value provided for --component-name-prefix")
        ELSE IF o.ProviderName = <<>>
        THEN BundleFailed(<<>>, NotParsed, "no value provided for --provider-name")
        ELSE IF parsedChart.err # ""
        THEN BundleFailed(SubSeq(before, 1, 1), NotParsed, parsedChart.err)
        ELSE IF invalid # ""
        THEN BundleFailed(SubSeq(before, 1, 2), NotParsed, invalid)
        ELSE IF chartResource.err # ""
        THEN BundleFailed(before, NotParsed, chartResource.err)
        ELSE [rendered EXCEPT !.steps = before \o @]

\* the steps of unbundle for the relations of the label
ResolveSteps(n) == [k \in 1..n |-> "resolve"]

\* a run of unbundle that ends with the error e in the last of the entered steps
UnbundleFailed(entered, rs, e) ==
    [steps |-> entered, rels |-> rs, values |-> EmptyMap, written |-> FALSE, err |-> e]

\* the steps of unbundle up to the unpacked chart, and up to the parsed label
UnpackSteps ==
    <<"GetOCMResources", "MkdirAll", "FindExactlyOneWith", "GetPayloadFrom",
      "UnpackHelmChartTarball">>
ReadSteps == UnpackSteps \o <<"resLabels", "Unmarshal">>

\* the first relation of rs that is not resolved (Len(rs) + 1 if all are)
FirstUnresolved(rs) ==
    CHOOSE i \in 1..(Len(rs) + 1) :
        /\ i <= Len(rs) => rs[i].ImageReference = NilRef
        /\ \A j \in 1..(i - 1) : rs[j].ImageReference # NilRef

\* unbundle from "render localized-values.yaml" on, with what
\* BuildLocalizedValues returned
WriteLocalizedValues(rs, built, fault) ==
    LET entered == ReadSteps \o ResolveSteps(Len(rs)) \o <<"BuildLocalizedValues">>
    IN  IF built.err # ""
        THEN [steps |-> entered, rels |-> rs, values |-> built.values,
              written |-> FALSE,
              err |-> "could not build localized-values.yaml: " \o built.err]
        ELSE IF fault = "OpenFile"
        THEN [steps |-> entered \o <<"Marshal", "WriteFile">>, rels |-> rs,
              values |-> built.values, written |-> FALSE,
              err |-> "open localized-values.yaml: permission denied"]
        ELSE IF fault = "Write"
        THEN [steps |-> entered \o <<"Marshal", "WriteFile">>, rels |-> rs,
              values |-> built.values, written |-> TRUE,
              err |-> "write localized-values.yaml: no space left on device"]
        ELSE [steps |-> entered \o <<"Marshal", "WriteFile", "git-location.json">>,
              rels |-> rs, values |-> built.values, written |-> TRUE, err |-> ""]

\* unbundle from the end of the loop that resolves the relations on
AfterResolution(resolved, fault) ==
    IF resolved.err # ""
    THEN UnbundleFailed(ReadSteps \o ResolveSteps(FirstUnresolved(resolved.rels)),
                        resolved.rels, resolved.err)
    ELSE Only({ WriteLocalizedValues(resolved.rels, built, fault) :
                    built \in {BuildLocalizedValues(resolved.rels)} })

\* unbundle from "parse image-relations.json" on, with the labels of the chart
ReadRelations(infos, resLabels, fault) ==
    IF ImageRelationsLabelName \notin DOMAIN resLabels
    THEN UnbundleFailed(SubSeq(ReadSteps, 1, 6), <<>>,
             "could not unpack resource: missing required label")
    ELSE IF resLabels[ImageRelationsLabelName].type # "string"
    THEN UnbundleFailed(SubSeq(ReadSteps, 1, 6), <<>>,
             "could not read label: expected string value")
    ELSE Only({ IF parsed.err # ""
                THEN UnbundleFailed(ReadSteps, <<>>,
                         "could not read label: " \o parsed.err)
                ELSE Only({ AfterResolution(resolved, fault) :
                                resolved \in {ResolveFrom(parsed.rels, 1, infos)} }) :
                parsed \in {Unmarshal(resLabels[ImageRelationsLabelName].val)} })

\* unbundle from "unpack the Helm chart" on, with the chart resource it found
UnpackChart(infos, chart, fault) ==
    IF chart.err # "" THEN UnbundleFailed(SubSeq(UnpackSteps, 1, 3), <<>>, chart.err)
    ELSE IF fault = "UnpackHelmChartTarball"
    THEN UnbundleFailed(UnpackSteps, <<>>, "could not unpack resource")
    ELSE Only({ ReadRelations(infos, resLabels, fault) :
                    resLabels \in {ResLabels(chart.res.Labels, 1, <<>>)} })

\* func unbundle(cmd *cobra.Command, args []string) error, for the resources
\* that `ocm get resources` reports; fault names a call to the outside that
\* fails in this run ("" when none does)
unbundle(infos, fault) ==
    IF fault = "GetOCMResources"
    THEN UnbundleFailed(SubSeq(UnpackSteps, 1, 1), <<>>, "could not run ocm")
    ELSE Only({ UnpackChart(infos, chart, fault) :
                    chart \in {FindExactlyOneWith(infos,
                                   {r \in Range(infos) : r.Type = "helmChart"})} })

-----------------------------------------------------------------------------
(* Inputs of the model.                                                    *)

\* image references as they are written in --image-relation options
RawPgX == <<"q",".","i","o","/","x","/","p","g",":","1">>
RawPgY == <<"q",".","i","o","/","y","/","p","g",":","1">>
RawPgUntagged == <<"q",".","i","o","/","x","/","p","g">>
RawDbDigest == <<"q",".","i","o","/","x","/","d","b","@","s",":","0">>
RawPgShort == <<"p","g",":","2">>

ParsedRefs(raws) == {ParseNormalizedNamed(s).ref : s \in {r \in raws : ParseNormalizedNamed(r).ok}}

\* values a caller may have put into ImageResourceName before AssignResourceNames
PresetNames ==
    { <<>>,
      <<"i","m","a","g","e","-","p","g">>,
      <<"i","m","a","g","e","-","p","g","-","1">>,
      <<"n">> }

NamingRels ==
    { ImageRelation(<<"a">>, Reference, ref, name) :
        ref \in ParsedRefs({RawPgX, RawPgY, RawPgUntagged, RawDbDigest}),
        name \in PresetNames }

\* a run without --image-relation options
NoOptions == inputs = <<>> /\ environ = <<>> /\ opts = <<>> /\ chartDir = <<>>

\* a run that neither edits a Chart.yaml nor unpacks a tar archive
NoChartFile == chartFile = <<>> /\ chartFile0 = <<>> /\ stampErrs = <<>>
NoTarball == tarball = <<>> /\ fs = <<>> /\ fsOps = <<>>

\* what every run starts from, besides its inputs
Idle ==
    /\ pc = "start"
    /\ rels0 = <<>>
    /\ bundleVersion = <<>>
    /\ resources = <<>>
    /\ imageRelationsJSON = <<>>
    /\ component = <<>>
    /\ unbundled = <<>>
    /\ localizedValues = EmptyMap
    /\ written = FALSE
    /\ calls = <<>>
    /\ steps = <<>>
    /\ componentVersion = <<>>
    /\ gotValue = <<>>
    /\ printed = FALSE
    /\ err = ""

-----------------------------------------------------------------------------
(* SpecNaming: AssignResourceNames on relation sets with and without       *)
(* pre-set names.                                                          *)

InitNaming ==
    /\ rels \in BoundedSeq(NamingRels, MaxNamingRels)
    /\ NoOptions
    /\ Idle /\ NoChartFile /\ NoTarball

CallAssignResourceNames ==
    /\ pc = "start"
    /\ rels0' = rels
    /\ rels' = AssignResourceNames(rels)
    /\ pc' = "named"
    /\ UNCHANGED <<stampVars, unpackVars, bundleVersion, resources, imageRelationsJSON, component,
                   unbundled, localizedValues, written, inputs, environ, opts,
                   chartDir, steps, componentVersion, calls,
                   gotValue, printed, err>>

\* AssignResourceNames once more, on the relations the first call left behind
\* (AsOCMResources runs it on whatever set it is given)
CallAssignResourceNamesAgain ==
    /\ pc = "named"
    /\ rels0' = rels
    /\ rels' = AssignResourceNames(rels)
    /\ pc' = "renamed"
    /\ UNCHANGED <<stampVars, unpackVars, bundleVersion, resources, imageRelationsJSON, component,
                   unbundled, localizedValues, written, inputs, environ, opts,
                   chartDir, steps, componentVersion, calls,
                   gotValue, printed, err>>

NextNaming == CallAssignResourceNames \/ CallAssignResourceNamesAgain

SpecNaming == InitNaming /\ [][NextNaming]_vars

Named == pc = "named"
PreNamed(rel) == rel.ImageResourceName # <<>>
SameRef(r1, r2) == RefString(r1.ImageReference) = RefString(r2.ImageReference)
Idx == 1..Len(rels)

PresetNamesDoNotCollide(rs) ==
    \A i, j \in 1..Len(rs) :
        (PreNamed(rs[i]) /\ PreNamed(rs[j]) /\ ~SameRef(rs[i], rs[j]))
            => rs[i].ImageResourceName # rs[j].ImageResourceName

C2_AllNamedEqualRefsEqualNames ==
    Named =>
        /\ \A i \in Idx : rels[i].ImageResourceName # <<>>
        /\ \A i, j \in Idx :
            SameRef(rels[i], rels[j]) => rels[i].ImageResourceName = rels[j].ImageResourceName

\* two unnamed relations of one image next to a relation of another image
C2_Witness ==
    /\ Named
    /\ \E i, j, k \in Idx :
        /\ i < j /\ SameRef(rels[i], rels[j]) /\ ~SameRef(rels[i], rels[k])
        /\ ~PreNamed(rels0[i]) /\ ~PreNamed(rels0[j])

LastPreNamedWithRefOf(rs, i) ==
    CHOOSE j \in 1..Len(rs) :
        /\ PreNamed(rs[j]) /\ SameRef(rs[j], rs[i])
        /\ \A k \in (j + 1)..Len(rs) : ~(PreNamed(rs[k]) /\ SameRef(rs[k], rs[i]))

Renamed == pc = "renamed"

\* C11: a second run of AssignResourceNames on the result of a first run changes
\* no relation's ImageResourceName (nor anything else of the relation set).
C11_SecondRunChangesNothing ==
    Renamed =>
        /\ Len(rels) = Len(rels0)
        /\ \A i \in Idx : rels[i].ImageResourceName = rels0[i].ImageResourceName
        /\ rels = rels0

\* the second run came after a first run that had to add a counter, on a set
\* where some names were pre-set
C11_Witness ==
    /\ Renamed /\ Len(rels) = 3
    /\ \E i, j \in Idx :
        /\ ~SameRef(rels[i], rels[j])
        /\ rels[i].ImageResourceName = <<"n">>
        /\ rels[j].ImageResourceName
             = ImagePrefix \o Base(RefName(rels[j].ImageReference)) \o <<"-", "1">>

\* relation i of the set gets a name of its own: no relation of its reference
\* has a pre-set name, and none comes before it
Unnamed(i) ==
    \A j \in Idx : SameRef(rels0[j], rels0[i]) => (~PreNamed(rels0[j]) /\ j >= i)

\* the final path segment of the repository name of relation i
Basename(i) ==
    LET name == RefName(rels0[i].ImageReference)
    IN  SubSeq(name, LastIndex(name, "/") + 1, Len(name))

\* 'image-<basename>' for k = 0, 'image-<basename>-k' for k in 1..9
Candidate(basename, k) ==
    IF k = 0 THEN <<"i","m","a","g","e","-">> \o basename
    ELSE <<"i","m","a","g","e","-">> \o basename \o <<"-", Digits[k + 1]>>

\* the pre-set names of the set and the names of the relations before i
TakenBefore(i) ==
    {rels0[j].ImageResourceName : j \in {j \in Idx : PreNamed(rels0[j])}}
    \cup {rels[j].ImageResourceName : j \in 1..(i - 1)}

\* C22: a relation whose reference has no name yet is named 'image-<basename>' if
\* no pre-set and no previously assigned name is that, else 'image-<basename>-k'
\* for the smallest k >= 1 that gives a name not taken; the search ends after at
\* most as many steps as there are taken names.
C22_SmallestFreeSuffix ==
    Named =>
        \A i \in Idx : Unnamed(i) =>
            \A taken \in {TakenBefore(i)} :
            \E k \in 0..Cardinality(taken) :
                /\ Candidate(Basename(i), k) \notin taken
                /\ \A l \in 0..(k - 1) : Candidate(Basename(i), l) \in taken
                /\ rels[i].ImageResourceName = Candidate(Basename(i), k)

\* 'image-pg' and 'image-pg-1' are pre-set for two images, and a third image of
\* the same basename was named 'image-pg-2'
C22_Witness ==
    /\ Named /\ Len(rels) = 3
    /\ \E i \in Idx :
        /\ Unnamed(i)
        /\ Basename(i) = <<"p", "g">>
        /\ rels[i].ImageResourceName = <<"i","m","a","g","e","-","p","g","-","2">>

-----------------------------------------------------------------------------
(* SpecOverlay: BuildLocalizedValues on resolved relation sets.            *)

OverlayPaths ==
    { <<"a">>, <<"a",".","b">>, <<"a",".","c">>, <<"a",".","b",".","c">>, <<"b">>,
      <<".","a">> }

\* a tag that is there, a repository, and a digest that is not there
OverlayValues ==
    { [Attribute |-> Tag, ImageReference |-> ParseNormalizedNamed(RawPgX).ref],
      [Attribute |-> Repository, ImageReference |-> ParseNormalizedNamed(RawPgY).ref],
      [Attribute |-> Digest, ImageReference |-> ParseNormalizedNamed(RawPgX).ref] }

OverlayRels ==
    { ImageRelation(path, v.Attribute, v.ImageReference, <<"n">>) :
        path \in OverlayPaths, v \in OverlayValues }

InitOverlay ==
    /\ rels \in BoundedSeq(OverlayRels, MaxOverlayRels)
    /\ NoOptions
    /\ Idle /\ NoChartFile /\ NoTarball

CallBuildLocalizedValues ==
    /\ pc = "start"
    /\ rels0' = rels
    /\ localizedValues' = BuildLocalizedValues(rels).values
    /\ err' = BuildLocalizedValues(rels).err
    /\ pc' = "built"
    /\ UNCHANGED <<stampVars, unpackVars, rels, bundleVersion, resources, imageRelationsJSON, component,
                   unbundled, written, inputs, environ, opts,
                   chartDir, steps, componentVersion, calls, gotValue, printed>>

NextOverlay == CallBuildLocalizedValues

SpecOverlay == InitOverlay /\ [][NextOverlay]_vars

Built == pc = "built"

\* p is a strict dot-prefix of q: q is p, a '.', and more
StrictDotPrefix(p, q) ==
    Len(q) > Len(p) /\ SubSeq(q, 1, Len(p) + 1) = p \o <<".">>

\* C4: BuildLocalizedValues returns an error whenever one relation's TargetPath
\* is a strict dot-prefix of another relation's TargetPath, whichever comes first.
C4_PrefixCollisionFails ==
    Built =>
        ((\E i, j \in Idx : StrictDotPrefix(rels[i].TargetPath, rels[j].TargetPath))
            => err # "")

\* no two relations have the same TargetPath or one a strict dot-prefix of the other
NonColliding(rs) ==
    \A i, j \in 1..Len(rs) :
        i # j => /\ rs[i].TargetPath # rs[j].TargetPath
                 /\ ~StrictDotPrefix(rs[i].TargetPath, rs[j].TargetPath)

\* the value found by descending from the map along the segments
Absent == [type |-> "absent", val |-> <<>>]

RECURSIVE Lookup(_, _)
Lookup(map, segments) ==
    IF Head(segments) \notin DOMAIN map THEN Absent
    ELSE LET v == map[Head(segments)] IN
         IF Len(segments) = 1 THEN v
         ELSE IF v.type = "string" THEN Absent
         ELSE Lookup(v.val, Tail(segments))

\* the segment lists that end at a string of the map
RECURSIVE Leaves(_)
Leaves(map) ==
    UNION { IF map[k].type = "string" THEN {<<k>>}
            ELSE { <<k>> \o rest : rest \in Leaves(map[k].val) } : k \in DOMAIN map }

\* C5: for non-colliding TargetPaths whose GetValue calls all succeed,
\* BuildLocalizedValues succeeds, the overlay holds GetValue(relation) at the
\* segments of each TargetPath, and it has exactly one leaf per relation.
C5_OneLeafPerRelation ==
    (Built /\ NonColliding(rels) /\ \A i \in Idx : GetValue(rels[i]).err = "") =>
        /\ err = ""
        /\ \A i \in Idx :
            Lookup(localizedValues, Split(rels[i].TargetPath, "."))
                = StringValue(GetValue(rels[i]).value)
        /\ Leaves(localizedValues) = { Split(rels[i].TargetPath, ".") : i \in Idx }
        /\ Cardinality(Leaves(localizedValues)) = Len(rels)

\* three relations, two of them below the same key, one at the top
C5_Witness ==
    /\ Built /\ NonColliding(rels) /\ \A i \in Idx : GetValue(rels[i]).err = ""
    /\ Len(rels) = 3
    /\ \E i, j, k \in Idx :
        /\ i # j /\ Len(Split(rels[i].TargetPath, ".")) = 2
        /\ Len(Split(rels[j].TargetPath, ".")) = 2
        /\ Head(Split(rels[i].TargetPath, ".")) = Head(Split(rels[j].TargetPath, "."))
        /\ Len(Split(rels[k].TargetPath, ".")) = 1
        /\ GetValue(rels[i]).value # GetValue(rels[j]).value

\* two relations of the set have the same TargetPath
SameTargetPath(i, j) == i # j /\ rels[i].TargetPath = rels[j].TargetPath

\* the last relation of the set that has the TargetPath of relation i
LastWithPathOf(i) ==
    CHOOSE j \in Idx :
        /\ rels[j].TargetPath = rels[i].TargetPath
        /\ \A k \in Idx : rels[k].TargetPath = rels[i].TargetPath => k <= j

\* C24: when two relations have the identical TargetPath (and nothing else makes
\* the call fail: every GetValue succeeds and no TargetPath is a strict
\* dot-prefix of another), BuildLocalizedValues succeeds, the overlay holds at
\* every TargetPath the value of the last relation that has this path, and the
\* overlay has no leaf but those of the TargetPaths.
C24_LastRelationWins ==
    (/\ Built
     /\ \E i, j \in Idx : SameTargetPath(i, j)
     /\ \A i \in Idx : GetValue(rels[i]).err = ""
     /\ \A i, j \in Idx : ~StrictDotPrefix(rels[i].TargetPath, rels[j].TargetPath)) =>
        /\ err = ""
        /\ \A i \in Idx :
            Lookup(localizedValues, Split(rels[i].TargetPath, "."))
                = StringValue(GetValue(rels[LastWithPathOf(i)]).value)
        /\ Leaves(localizedValues) = { Split(rels[i].TargetPath, ".") : i \in Idx }

\* the first and the last of three relations have the same nested TargetPath and
\* different values, the one between them shares its first key
C24_Witness ==
    /\ Built /\ err = "" /\ Len(rels) = 3
    /\ SameTargetPath(1, 3)
    /\ Len(Split(rels[1].TargetPath, ".")) = 2
    /\ GetValue(rels[1]).value # GetValue(rels[3]).value
    /\ Len(Split(rels[2].TargetPath, ".")) = 2
    /\ Head(Split(rels[2].TargetPath, ".")) = Head(Split(rels[1].TargetPath, "."))
    /\ rels[2].TargetPath # rels[1].TargetPath
    /\ Lookup(localizedValues, Split(rels[3].TargetPath, "."))
         = StringValue(GetValue(rels[3]).value)
    /\ Lookup(localizedValues, Split(rels[2].TargetPath, "."))
         = StringValue(GetValue(rels[2]).value)

-----------------------------------------------------------------------------
(* SpecGetValue: GetValue on one relation, whose Attribute may be any      *)
(* string (unbundle reads it from the label of the chart resource).        *)

RawPgBoth == <<"q",".","i","o","/","x","/","p","g",":","1","@","s",":","0">>
RawPort == <<"q",":","5","/","d","b">>
RawBare == <<"p","g">>

GetValueAttributes ==
    { Reference, Repository, Digest, Tag, <<>>, <<"T","a","g">>, <<"n","a","m","e">> }

GetValueRels ==
    { ImageRelation(<<"a">>, attribute, ref, <<"n">>) :
        attribute \in GetValueAttributes,
        ref \in ParsedRefs({RawPgX, RawPgY, RawPgUntagged, RawDbDigest, RawPgShort,
                            RawPgBoth, RawPort, RawBare}) }

InitGetValue ==
    /\ rels \in [1..1 -> GetValueRels]
    /\ NoOptions
    /\ Idle /\ NoChartFile /\ NoTarball

CallGetValue ==
    /\ pc = "start"
    /\ gotValue' = GetValue(rels[1]).value
    /\ err' = GetValue(rels[1]).err
    /\ pc' = "got"
    /\ UNCHANGED <<stampVars, unpackVars, rels, rels0, bundleVersion, resources, imageRelationsJSON, component,
                   unbundled, localizedValues, written, inputs, environ, opts,
                   chartDir, steps, componentVersion, calls,
                   printed>>

NextGetValue == CallGetValue

SpecGetValue == InitGetValue /\ [][NextGetValue]_vars

Got == pc = "got"

\* the parts of a normalized reference string s = repository[:tag][@digest]; a
\* ':' before the last '/' belongs to the registry's port
BeforeDigest(s) == Cut(s, "@").before
LastSegmentStart(s) == LastIndex(BeforeDigest(s), "/") + 1
TagColon(s) ==
    LET last == SubSeq(BeforeDigest(s), LastSegmentStart(s), Len(BeforeDigest(s)))
    IN  IF Index(last, ":") = 0 THEN 0 ELSE LastSegmentStart(s) + Index(last, ":") - 1
HasDigestPart(s) == Cut(s, "@").found
HasTagPart(s) == TagColon(s) # 0
DigestPart(s) == Cut(s, "@").after
TagPart(s) == SubSeq(BeforeDigest(s), TagColon(s) + 1, Len(BeforeDigest(s)))
RepositoryPart(s) ==
    IF HasTagPart(s) THEN SubSeq(s, 1, TagColon(s) - 1) ELSE BeforeDigest(s)

\* C12: GetValue returns the full normalized reference string for 'reference',
\* the string without tag and digest for 'repository', the digest for 'digest' and
\* the tag for 'tag' when the reference carries one; it returns an error and the
\* empty string exactly when the attribute is 'digest' and there is no digest, or
\* 'tag' and there is no tag, or the attribute is none of the four names.
C12_GetValueByAttribute ==
    Got =>
        LET s == RefString(rels[1].ImageReference)
            attribute == rels[1].Attribute
            fails == err # "" /\ gotValue = <<>>
            returns(v) == err = "" /\ gotValue = v
        IN  /\ attribute = Reference => returns(s)
            /\ attribute = Repository => returns(RepositoryPart(s))
            /\ attribute = Digest =>
                  IF HasDigestPart(s) THEN returns(DigestPart(s)) ELSE fails
            /\ attribute = Tag =>
                  IF HasTagPart(s) THEN returns(TagPart(s)) ELSE fails
            /\ attribute \notin {Reference, Repository, Digest, Tag} => fails
            /\ (err # "") <=> \/ attribute = Digest /\ ~HasDigestPart(s)
                              \/ attribute = Tag /\ ~HasTagPart(s)
                              \/ attribute \notin {Reference, Repository, Digest, Tag}

\* the tag of a reference with a registry port, and the missing digest of it
C12_Witness ==
    /\ Got
    /\ RefString(rels[1].ImageReference) = <<"q",":","5","/","d","b">>
    /\ rels[1].Attribute = Digest
    /\ err # ""

-----------------------------------------------------------------------------
(* SpecParse: ParseImageRelations on the values of --image-relation.       *)

MaxInputs == 2

\* declarations, as they are written in an --image-relation option
\*   .Values.a is ${A} of ${T}
DeclVariable ==
    ValuesPrefix \o <<"a"," ","i","s"," ","$","{","A","}"," ","o","f"," ","$","{","T","}">>
\*   .Values.a..b is ${A} of $(cat v)
DeclEmptySegment ==
    ValuesPrefix \o <<"a",".",".","b"," ","i","s"," ","$","{","A","}"," ","o","f"," ",
                      "$","(","c","a","t"," ","v",")">>
\*   .Values.c is tag of x/$(cat t)
DeclOutputKept ==
    ValuesPrefix \o <<"c"," ","i","s"," ","t","a","g"," ","o","f"," ",
                      "x","/","$","(","c","a","t"," ","t",")">>
\*   .Values.d is tag of $(cat v)$(echo ')
DeclQuoteSecond ==
    ValuesPrefix \o <<"d"," ","i","s"," ","t","a","g"," ","o","f"," ",
                      "$","(","c","a","t"," ","v",")","$","(","e","c","h","o"," ","'",")">>
\*   .Values.e is tag of $(echo ")$(cat v)
DeclQuoteFirst ==
    ValuesPrefix \o <<"e"," ","i","s"," ","t","a","g"," ","o","f"," ",
                      "$","(","e","c","h","o"," ","\"",")","$","(","c","a","t"," ","v",")">>
\*   .Values.f is digest of ${T} x
DeclFiveWords ==
    ValuesPrefix \o <<"f"," ","i","s"," ">> \o Digest
    \o <<" ","o","f"," ","$","{","T","}"," ","x">>
\*   .Values.h.i  is reference of<TAB>q.io/x/pg:1
DeclPlain ==
    ValuesPrefix \o <<"h",".","i"," "," ","i","s"," ">> \o Reference
    \o <<" ","o","f","\t">> \o RawPgX
\*   .Values.j is tag of $(false)$( )
DeclExitStatus ==
    ValuesPrefix \o <<"j"," ","i","s"," ","t","a","g"," ","o","f"," ",
                      "$","(","f","a","l","s","e",")","$","("," ",")">>
\*   .Values.k is tag of pg:$( )
DeclNoCommand ==
    ValuesPrefix \o <<"k"," ","i","s"," ","t","a","g"," ","o","f"," ",
                      "p","g",":","$","("," ",")">>

\* values of the option: single declarations, lists with commas and newlines,
\* blank segments, trailing separators
OptionValues ==
    { DeclVariable, DeclEmptySegment, DeclOutputKept, DeclQuoteSecond, DeclQuoteFirst,
      DeclFiveWords, DeclPlain, DeclExitStatus, DeclNoCommand,
      <<" ", "\n", ",">>,
      DeclPlain \o <<"\n">> \o DeclEmptySegment,
      DeclPlain \o <<",", "\n">> \o DeclVariable \o <<" ", ",", " ">>,
      DeclQuoteSecond \o <<"\n">> \o DeclVariable,
      DeclPlain \o <<",">> \o DeclOutputKept }

\* the environment of the process: T with white space around an image
\* reference, or holding a command substitution, or unset; A an attribute
\* name, another word, or empty
Environments ==
    { (<<"T">> :> (<<" ">> \o RawPgX \o <<" ">>)) @@ (<<"A">> :> (Tag \o <<"\n">>)),
      (<<"T">> :> <<"$","(","c","a","t"," ","v",")">>) @@ (<<"A">> :> Repository),
      (<<"T">> :> RawPgShort) @@ (<<"A">> :> <<"n","a","m","e">>),
      (<<"A">> :> <<>>) }

InitParse ==
    /\ inputs \in BoundedSeq(OptionValues, MaxInputs)
    /\ environ \in Environments
    /\ opts = <<>> /\ chartDir = <<>>
    /\ rels = <<>>
    /\ Idle /\ NoChartFile /\ NoTarball

CallParseImageRelations ==
    /\ pc = "start"
    /\ \E out \in {ParseImageRelations(environ, inputs)} :
        /\ rels' = out.result
        /\ err' = out.err
        /\ calls' = out.calls
    /\ pc' = "parsed"
    /\ UNCHANGED <<stampVars, unpackVars, rels0, bundleVersion, resources, imageRelationsJSON, component,
                   unbundled, localizedValues, written, inputs, environ, opts,
                   chartDir, steps, componentVersion, gotValue,
                   printed>>

NextParse == CallParseImageRelations

SpecParse == InitParse /\ [][NextParse]_vars

Parsed == pc = "parsed"

\* the calls of parseImageRelation of the state
CallIdx == 1..Len(calls)

\* the events of call c with the given op, in order
EventsOf(c, op) == SelectSeq(c.events, LAMBDA e : e.op = op)

\* a dot-path: not empty, and no empty segment between, before or after its dots
ValidDotPath(p) ==
    /\ p # <<>>
    /\ p[1] # "." /\ p[Len(p)] # "."
    /\ \A i \in 1..(Len(p) - 1) : ~(p[i] = "." /\ p[i + 1] = ".")

\* C13: every relation that ParseImageRelations returns has a TargetPath that is
\* a valid dot-path: non-empty, without a leading, trailing or doubled '.'.
C13_TargetPathsAreDotPaths ==
    Parsed => \A i \in Idx : ValidDotPath(rels[i].TargetPath)

\* the references ${NAME} in s, as pairs of the positions of '$' and '}'; no two
\* of them overlap, because a name holds neither '$' nor '{'
VariableReferences(s) ==
    { <<i, j>> \in { <<b, b + 2 + Index(SubSeq(s, b + 3, Len(s)), "}")>> :
                       b \in {a \in 1..(Len(s) - 3) : s[a] = "$" /\ s[a + 1] = "{"} } :
        /\ j >= i + 3 /\ s[j] = "}"
        /\ s[i + 2] \in IdentifierStart
        /\ \A k \in (i + 3)..(j - 1) : s[k] \in IdentifierChars }

\* the elements of a set of pairs of positions, by ascending first position
RECURSIVE Ascending(_)
Ascending(pairs) ==
    IF pairs = {} THEN <<>>
    ELSE LET first == CHOOSE p \in pairs : \A q \in pairs : p[1] <= q[1]
         IN  <<first>> \o Ascending(pairs \ {first})

\* the names of the references ${NAME} in s, from left to right
VariableNames(s) ==
    LET refs == Ascending(VariableReferences(s))
    IN  [k \in 1..Len(refs) |-> SubSeq(s, refs[k][1] + 2, refs[k][2] - 1)]

\* the command substitutions $(...) in s from position i on, from left to right:
\* each begins at the first "$(" that has a ')' after it and ends at that ')'
RECURSIVE CommandTexts(_, _)
CommandTexts(s, i) ==
    IF i >= Len(s) THEN <<>>
    ELSE IF s[i] = "$" /\ s[i + 1] = "(" /\ \E j \in (i + 2)..Len(s) : s[j] = ")"
    THEN LET close == CHOOSE j \in (i + 2)..Len(s) :
                          s[j] = ")" /\ \A k \in (i + 2)..(j - 1) : s[k] # ")"
         IN  <<SubSeq(s, i + 2, close - 1)>> \o CommandTexts(s, close + 1)
    ELSE CommandTexts(s, i + 1)

\* the args of a sequence of events
Args(events) == [k \in 1..Len(events) |-> events[k].arg]

\* a is b or the beginning of b
IsPrefix(a, b) == Len(a) <= Len(b) /\ SubSeq(b, 1, Len(a)) = a

\* the stage of parseImageRelation that an event belongs to
StageOf(e) ==
    IF e.op = "getenv" THEN 1
    ELSE IF e.op \in {"command", "exec"} THEN 2
    ELSE IF e.op = "match" THEN 3
    ELSE 4

\* C14: in every call of parseImageRelation the stages come in a fixed order:
\* every lookup of a ${NAME} of the declaration comes before any $(...) is checked
\* or spawned; the commands checked and spawned are those of the string after
\* variable substitution, from left to right (so a $(...) that a variable's value
\* brought in is executed, and nothing that a command printed is looked up or
\* executed); the grammar is matched once, against the string after both
\* substitutions and only when all of them succeeded; the reference is parsed
\* last, from the matched image-ref token.
C14_StagesInFixedOrder ==
    Parsed => \A n \in CallIdx :
        LET c == calls[n]
            ev == c.events
            lookups == EventsOf(c, "getenv")
            commands == EventsOf(c, "command")
            spawned == EventsOf(c, "exec")
            matches == EventsOf(c, "match")
            parses == EventsOf(c, "reference")
        IN  /\ \A i, j \in 1..Len(ev) : i < j => StageOf(ev[i]) <= StageOf(ev[j])
            /\ IsPrefix(Args(lookups), VariableNames(c.input))
            /\ IsPrefix(Args(commands), CommandTexts(c.afterVariables, 1))
            /\ IsPrefix(Args(spawned), Args(commands))
            /\ \A i \in 1..Len(ev) :
                ev[i].op = "exec" => (i > 1 /\ ev[i - 1] = Event("command", ev[i].arg))
            /\ Len(commands) > 0 => Len(lookups) = Len(VariableNames(c.input))
            /\ Len(matches) <= 1 /\ Len(parses) <= 1
            /\ Len(matches) = 1 =>
                /\ Len(spawned) = Len(CommandTexts(c.afterVariables, 1))
                /\ matches[1].arg = c.afterCommands
            /\ Len(parses) = 1 =>
                /\ Len(matches) = 1 /\ ev[Len(ev)] = parses[1]
                /\ parses[1].arg = Fields(c.afterCommands)[Len(Fields(c.afterCommands))]

\* one state with a call that executed a command that came from the value of a
\* variable, and a call that kept "${T}$(id)" from the output of a command
C14_Witness ==
    /\ Parsed
    /\ \E n \in CallIdx :
        /\ CommandTexts(calls[n].input, 1) = <<>>
        /\ Len(EventsOf(calls[n], "getenv")) = 2
        /\ Len(EventsOf(calls[n], "exec")) = 1
        /\ calls[n].err = ""
    /\ \E n \in CallIdx :
        /\ Len(EventsOf(calls[n], "exec")) = 1
        /\ Len(EventsOf(calls[n], "reference")) = 1
        /\ VariableReferences(calls[n].afterCommands) # {}
        /\ CommandTexts(calls[n].afterCommands, 1) # <<>>

\* C15: a call of parseImageRelation that fails because the text of a $(...)
\* holds a bracket or a quote has spawned no subprocess.
C15_NoSpawnBeforeShellSyntaxError ==
    Parsed => \A n \in CallIdx :
        calls[n].err = "refusing to execute command which appears to contain shell syntax"
            => EventsOf(calls[n], "exec") = <<>>

\* the environment lookup of a name fails
LookupFails(env, name) == name \notin DOMAIN env \/ env[name] = <<>>

\* t is v without the white space at its two ends
IsTrimmed(t, v) ==
    /\ t = <<>> \/ (t[1] \notin WhiteSpace /\ t[Len(t)] \notin WhiteSpace)
    /\ \E before \in 0..Len(v) :
        /\ before + Len(t) <= Len(v)
        /\ SubSeq(v, before + 1, before + Len(t)) = t
        /\ \A k \in (1..before) \cup ((before + Len(t) + 1)..Len(v)) : v[k] \in WhiteSpace

\* s from position i on, with every reference in refs replaced by the trimmed
\* value of its variable
RECURSIVE WithValues(_, _, _, _)
WithValues(s, i, refs, env) ==
    IF i > Len(s) THEN <<>>
    ELSE IF \E r \in refs : r[1] = i
    THEN LET r == CHOOSE q \in refs : q[1] = i
             v == env[SubSeq(s, i + 2, r[2] - 1)]
             t == CHOOSE w \in {SubSeq(v, a, b) : a \in 1..(Len(v) + 1), b \in 0..Len(v)} :
                      IsTrimmed(w, v)
         IN  t \o WithValues(s, r[2] + 1, refs, env)
    ELSE <<s[i]>> \o WithValues(s, i + 1, refs, env)

\* C16: when the lookup of a ${NAME} of the declaration fails, parseImageRelation
\* returns an error and no relation and has neither checked nor spawned a command;
\* when all lookups succeed, every ${NAME} is replaced by the value of NAME
\* without the white space at its ends.
C16_MissingVariableFailsBeforeCommands ==
    Parsed => \A n \in CallIdx : \A names \in {VariableNames(calls[n].input)} :
        LET c == calls[n]
        IN  IF \E k \in 1..Len(names) : LookupFails(environ, names[k])
            THEN /\ c.err # ""
                 /\ c.rel = ImageRelation(<<>>, <<>>, NilRef, <<>>)
                 /\ EventsOf(c, "command") = <<>>
                 /\ EventsOf(c, "exec") = <<>>
            ELSE /\ c.afterVariables
                      = WithValues(c.input, 1, VariableReferences(c.input), environ)
                 /\ Args(EventsOf(c, "getenv")) = names

\* a call failed at a missing variable in a declaration that holds a command,
\* after an earlier call of the batch had succeeded
C16_Witness ==
    /\ Parsed /\ Len(calls) >= 2
    /\ LookupFails(environ, <<"A">>)
    /\ \E n \in CallIdx :
        /\ CommandTexts(calls[n].input, 1) # <<>>
        /\ VariableNames(calls[n].input) = << <<"A">> >>
        /\ calls[n].err # ""

\* two variables of one declaration were replaced, one of them by a value that
\* had white space around it
C16_AllReplaced ==
    /\ Parsed
    /\ \E n \in CallIdx :
        /\ VariableNames(calls[n].input) = << <<"A">>, <<"T">> >>
        /\ <<"T">> \in DOMAIN environ
        /\ environ[<<"T">>] = <<" ">> \o RawPgX \o <<" ">>
        /\ calls[n].rel.ImageReference = ParseNormalizedNamed(RawPgX).ref
        /\ calls[n].rel.Attribute = Tag

\* the grammar '.Values.<path> is <attribute> of <image-ref>' by words: s has no
\* white space at its ends and exactly five words
Grammar(s) ==
    LET words == Fields(s)
        none == [ok |-> FALSE, path |-> <<>>, attribute |-> <<>>, ref |-> <<>>]
    IN  IF /\ Len(words) = 5
           /\ s[1] \notin WhiteSpace /\ s[Len(s)] \notin WhiteSpace
           /\ Len(words[1]) > Len(ValuesPrefix)
           /\ SubSeq(words[1], 1, Len(ValuesPrefix)) = ValuesPrefix
           /\ words[2] = <<"i","s">>
           /\ words[3] \in {Repository, Tag, Digest, Reference}
           /\ words[4] = <<"o","f">>
        THEN [ok |-> TRUE,
              path |-> SubSeq(words[1], Len(ValuesPrefix) + 1, Len(words[1])),
              attribute |-> words[3], ref |-> words[5]]
        ELSE none

\* C17: a call of parseImageRelation whose substitutions succeeded returns a
\* relation exactly when the substituted string matches the grammar and its
\* image-ref parses; the relation then has the path, the attribute, the parsed
\* reference and an empty ImageResourceName; otherwise the call returns an error
\* and the zero relation.
C17_GrammarDecidesSuccess ==
    Parsed => \A n \in CallIdx :
        LET c == calls[n]
            g == Grammar(c.afterCommands)
            named == ParseNormalizedNamed(g.ref)
        IN  /\ c.err = "" => EventsOf(c, "match") # <<>>
            /\ EventsOf(c, "match") # <<>> =>
                IF g.ok /\ named.ok
                THEN /\ c.err = ""
                     /\ c.rel.TargetPath = g.path
                     /\ c.rel.Attribute = g.attribute
                     /\ c.rel.ImageReference = named.ref
                     /\ c.rel.ImageResourceName = <<>>
                ELSE /\ c.err # ""
                     /\ c.rel = ImageRelation(<<>>, <<>>, NilRef, <<>>)

\* one state with a call that succeeded on a declaration with doubled blanks
\* and a tab, and a call that failed at the attribute word or at the reference
C17_Witness ==
    /\ Parsed /\ Len(calls) >= 2
    /\ \E n \in CallIdx :
        /\ calls[n].err = ""
        /\ calls[n].rel.TargetPath = <<"h", ".", "i">>
        /\ calls[n].rel.ImageReference = ParseNormalizedNamed(RawPgX).ref
    /\ \E n \in CallIdx :
        /\ calls[n].err # "" /\ EventsOf(calls[n], "match") # <<>>
        /\ Len(Fields(calls[n].afterCommands)) = 5

\* where a segment of an option value may begin, and where it may end
SegmentStarts(s) == {p \in 1..(Len(s) + 1) : p = 1 \/ s[p - 1] \in Separators}
SegmentEnds(s) == {p \in 0..Len(s) : p = Len(s) \/ s[p + 1] \in Separators}

\* the segments of the option values, as triples <<n, b, e>>: positions b..e of
\* inputs[n] hold no separator and have a separator or an end of the value on
\* either side; those that are not blank
Segments ==
    UNION { { t \in {n} \X SegmentStarts(inputs[n]) \X SegmentEnds(inputs[n]) :
                /\ t[3] >= t[2] - 1
                /\ \A p \in t[2]..t[3] : inputs[n][p] \notin Separators }
            : n \in 1..Len(inputs) }

NonBlank(t) == \E p \in t[2]..t[3] : inputs[t[1]][p] \notin WhiteSpace

\* triples in source order: by option value, then by position
RECURSIVE InSourceOrder(_)
InSourceOrder(triples) ==
    IF triples = {} THEN <<>>
    ELSE LET first == CHOOSE t \in triples : \A u \in triples :
                          t[1] < u[1] \/ (t[1] = u[1] /\ t[2] <= u[2])
         IN  <<first>> \o InSourceOrder(triples \ {first})

\* the trimmed non-blank segments of the option values, in source order
Declarations ==
    LET ordered == InSourceOrder({t \in Segments : NonBlank(t)})
    IN  [k \in 1..Len(ordered) |->
            TrimSpace(SubSeq(inputs[ordered[k][1]], ordered[k][2], ordered[k][3]))]

\* the first of the declarations that parseImageRelation fails on; 0 if there
\* is none
FirstFailing(declarations) ==
    LET failing == {k \in 1..Len(declarations) :
                        parseImageRelation(environ, declarations[k]).err # ""}
    IN  IF failing = {} THEN 0
        ELSE CHOOSE k \in failing : \A other \in failing : k <= other

\* C18: when every segment parses, ParseImageRelations returns no error and one
\* relation per non-blank segment, in source order; blank segments give neither a
\* relation nor an error.
C18_OneRelationPerSegmentInOrder ==
    Parsed => \A declarations \in {Declarations} :
        FirstFailing(declarations) = 0 =>
            /\ err = ""
            /\ Len(rels) = Len(declarations)
            /\ Len(calls) = Len(declarations)
            /\ \A k \in 1..Len(declarations) :
                /\ calls[k].input = declarations[k]
                /\ calls[k].err = ""
                /\ rels[k] = calls[k].rel

\* three relations from two option values with a comma, a newline, a blank
\* segment and trailing separators between them
C18_Witness ==
    /\ Parsed /\ err = "" /\ Len(rels) >= 3
    /\ \E n \in 1..Len(inputs) :
        /\ Cardinality({t \in Segments : t[1] = n}) = 4
        /\ Cardinality({t \in Segments : t[1] = n /\ NonBlank(t)}) = 2
    /\ rels[1].TargetPath # rels[2].TargetPath

\* C19: the first segment that fails ends the batch: ParseImageRelations returns
\* an error and no relations, and parseImageRelation was called for the segments
\* up to the failing one and for none after it.
C19_FirstFailureAbortsBatch ==
    Parsed => \A declarations \in {Declarations} :
        \A failing \in {FirstFailing(declarations)} :
            failing # 0 =>
                /\ err # ""
                /\ rels = <<>>
                /\ Len(calls) = failing
                /\ \A k \in 1..failing : calls[k].input = declarations[k]
                /\ \A k \in 1..(failing - 1) : calls[k].err = ""
                /\ calls[failing].err # ""

\* a segment parsed, the next one failed after spawning a command, and a later
\* segment with variables was left alone
C19_Witness ==
    /\ Parsed /\ err # "" /\ Len(calls) = 2
    /\ calls[1].err = "" /\ calls[2].err # ""
    /\ EventsOf(calls[2], "exec") # <<>>
    /\ Len(Declarations) >= 3
    /\ VariableNames(Declarations[3]) # <<>>

\* the first of the placeholders whose replacement fails; 0 if there is none
FirstFailure(rx, submatches) ==
    LET failing == {k \in 1..Len(submatches) :
                        Replace(rx, submatches[k], environ).err # ""}
    IN  IF failing = {} THEN 0
        ELSE CHOOSE k \in failing : \A other \in failing : k <= other

\* what one stage of parseImageRelation did, given the placeholders of its
\* input from left to right and the args of the callbacks that were entered:
\* the callbacks are those of the placeholders up to and including the first
\* one that fails, and the call returns the error of that one
ShortCircuits(c, rx, submatches, entered) ==
    \A f \in {FirstFailure(rx, submatches)} :
        IF f = 0 THEN entered = submatches
        ELSE /\ entered = SubSeq(submatches, 1, f)
             /\ c.err = Replace(rx, submatches[f], environ).err
             /\ c.rel = ImageRelation(<<>>, <<>>, NilRef, <<>>)

\* C23: within one substitution stage the placeholders are handled from left to
\* right and substitution stops at the first failure: the environment lookups
\* of a call are those of the ${NAME} of its input up to and including the
\* first one that fails, the commands checked are those of the string after
\* variable substitution up to and including the first one that fails, the
\* subprocesses spawned are those of the commands checked that passed the
\* check, and the call returns the error of that first failure.
C23_SubstitutionShortCircuits ==
    Parsed => \A n \in CallIdx :
        LET c == calls[n]
            names == VariableNames(c.input)
            lookups == Args(EventsOf(c, "getenv"))
        IN  /\ ShortCircuits(c, variableReferenceRx, names, lookups)
            /\ FirstFailure(variableReferenceRx, names) = 0 =>
                LET texts == CommandTexts(c.afterVariables, 1)
                    checked == Args(EventsOf(c, "command"))
                    spawned == Args(EventsOf(c, "exec"))
                IN  /\ ShortCircuits(c, commandSubstitutionRx, texts, checked)
                    /\ spawned = SelectSeq(checked, LAMBDA text :
                                     /\ ~ContainsAny(text, ShellSyntax)
                                     /\ Fields(text) # <<>>)

\* a call failed at the first of two commands, the second of which fails with
\* another error
C23_Witness ==
    /\ Parsed
    /\ \E n \in CallIdx :
        /\ CommandTexts(calls[n].afterVariables, 1) = << <<"f","a","l","s","e">>, <<" ">> >>
        /\ Replace(commandSubstitutionRx, <<" ">>, environ).err
              = "refusing to execute command which contains no command"
        /\ Args(EventsOf(calls[n], "command")) = << <<"f","a","l","s","e">> >>
        /\ calls[n].err = "exit status 1"

\* a call failed at the first of two variables, both of which are missing
C23_FirstOfTwoVariables ==
    /\ Parsed
    /\ \E n \in CallIdx :
        /\ VariableNames(calls[n].input) = << <<"A">>, <<"T">> >>
        /\ LookupFails(environ, <<"A">>) /\ LookupFails(environ, <<"T">>)
        /\ Args(EventsOf(calls[n], "getenv")) = << <<"A">> >>
        /\ calls[n].err = "environment variable is not set"

-----------------------------------------------------------------------------
(* SpecBundle: bundle renders the component of a parsed relation set, then *)
(* unbundle reads it back.                                                 *)

SpecialPath == <<"c", "\"", "\\", "<", ".", "d">>

\* relations as ParseImageRelations returns them: every name is empty
BundleRels ==
    { ImageRelation(pa[1], pa[2], ref, <<>>) :
        pa \in { <<<<"a",".","b">>, Repository>>, <<<<"a",".","c">>, Tag>>,
                 <<SpecialPath, Digest>> },
        ref \in ParsedRefs({RawPgX, RawPgY, RawDbDigest, RawPgShort}) }

ChartVersion == <<"0", ".", "1">>

InitBundle ==
    /\ rels \in BoundedSeq(BundleRels, MaxBundleRels)
    /\ NoOptions
    /\ Idle /\ NoChartFile /\ NoTarball

\* bundleOpts.Run from the parsed relations on: the image resources, the label
\* on the chart resource, the resources of the component
Bundle ==
    /\ pc = "start"
    /\ \E gitLocationJSON \in {<<>>, GitLocationJSON},
          out \in {AsOCMResources(rels, ChartVersion)} :
        LET chart == ChartResource(ChartVersion, gitLocationJSON)
            chartResource ==
                [chart EXCEPT !.Labels =
                    Append(@, OCMLabel(ImageRelationsLabelName,
                                       StringValue(out.imageRelationsJSON)))]
        IN  /\ rels0' = rels
            /\ rels' = out.rels
            /\ bundleVersion' = ChartVersion
            /\ resources' = out.resources
            /\ imageRelationsJSON' = out.imageRelationsJSON
            /\ err' = out.err
            /\ component' = <<chartResource>> \o out.resources
    /\ printed' = TRUE
    /\ pc' = "bundled"
    /\ UNCHANGED <<stampVars, unpackVars, unbundled, localizedValues, written, inputs, environ, opts,
                   chartDir, steps, componentVersion, calls, gotValue>>

\* unbundle of the component version that holds the bundled resources
Unbundle ==
    /\ pc = "bundled"
    /\ \E out \in {UnbundleRelations(GetOCMResources(component))} :
        /\ unbundled' = out.rels
        /\ localizedValues' = out.values
        /\ written' = out.written
        /\ err' = out.err
    /\ pc' = "unbundled"
    /\ UNCHANGED <<stampVars, unpackVars, rels, rels0, bundleVersion, resources, imageRelationsJSON, component,
                   inputs, environ, opts,
                   chartDir, steps, componentVersion, calls, gotValue, printed>>

NextBundle == Bundle \/ Unbundle

SpecBundle == InitBundle /\ [][NextBundle]_vars

Bundled == pc \in {"bundled", "unbundled"}
Unbundled == pc = "unbundled"

\* the descriptors of D whose name is resName
DescriptorsNamed(D, resName) == SelectSeq(D, LAMBDA d : d.Name = resName)

\* C6: for a relation set R from ParseImageRelations and (D, S) = AsOCMResources(R, v),
\* deserializing S and resolving every image-resource-name against D finds exactly
\* one descriptor, which passes unbundle's check and whose imageReference is the
\* string of the original ImageReference; so unbundle resolves the original
\* references and BuildLocalizedValues gives what it gives on R.
C6_BundleUnbundleRoundTrip ==
    Unbundled =>
        /\ Len(unbundled) = Len(rels0)
        /\ \A i \in 1..Len(rels0) :
            LET found == DescriptorsNamed(resources, unbundled[i].ImageResourceName) IN
            /\ Len(found) = 1
            /\ found[1].Type = "ociImage"
            /\ found[1].Access.type = "ociArtifact"
            /\ found[1].Access.imageReference # <<>>
            /\ found[1].Access.imageReference = RefString(rels0[i].ImageReference)
            /\ unbundled[i].ImageReference = rels0[i].ImageReference
        /\ localizedValues = BuildLocalizedValues(rels0).values
        /\ (err = "") = (BuildLocalizedValues(rels0).err = "")
        /\ written = (BuildLocalizedValues(rels0).err = "")

\* three relations of two images with the same base name were bundled and
\* unbundled, and localized-values.yaml was written
C6_Witness ==
    /\ Unbundled /\ written /\ Len(rels0) = 3
    /\ Cardinality({RefString(rels0[i].ImageReference) : i \in 1..3}) = 2
    /\ Cardinality({Base(RefName(rels0[i].ImageReference)) : i \in 1..3}) = 1
    /\ DOMAIN localizedValues # {}

\* C7: deserializing the serialized relation set gives a sequence of the same
\* length and order with the same TargetPath, Attribute and ImageResourceName;
\* the ImageReference is not serialized.
C7_JSONRoundTrip ==
    Bundled =>
        LET read == Unmarshal(imageRelationsJSON) IN
        /\ read.err = ""
        /\ Len(read.rels) = Len(rels)
        /\ \A i \in Idx :
            /\ read.rels[i].TargetPath = rels[i].TargetPath
            /\ read.rels[i].Attribute = rels[i].Attribute
            /\ read.rels[i].ImageResourceName = rels[i].ImageResourceName
            /\ read.rels[i].ImageReference = NilRef

\* a set with a TargetPath that the encoder has to escape
C7_Witness ==
    /\ Bundled /\ Len(rels) >= 2
    /\ \E i \in Idx : rels[i].TargetPath = SpecialPath
    /\ \E i \in Idx : rels[i].ImageResourceName = ImagePrefix \o <<"p", "g", "-", "1">>

\* C8: for a non-empty set AsOCMResources emits one descriptor per distinct
\* ImageResourceName, in strictly ascending order of name; each carries the full
\* string of the image reference of the relations with that name, and as version
\* the reference's tag if it has one, else the fallback version.
C8_OneDescriptorPerName ==
    (Bundled /\ Len(rels0) > 0) =>
        /\ { resources[k].Name : k \in 1..Len(resources) }
            = { rels[i].ImageResourceName : i \in Idx }
        /\ Len(resources) = Cardinality({ rels[i].ImageResourceName : i \in Idx })
        /\ \A k \in 1..(Len(resources) - 1) :
            StrLess(resources[k].Name, resources[k + 1].Name)
        /\ \A k \in 1..Len(resources), i \in Idx :
            rels[i].ImageResourceName = resources[k].Name =>
                /\ resources[k].Access.imageReference = RefString(rels[i].ImageReference)
                /\ resources[k].Version =
                    IF IsTagged(rels[i].ImageReference) THEN rels[i].ImageReference.tag
                    ELSE bundleVersion

\* two relations of one image and a relation of an untagged image: two descriptors
C8_Witness ==
    /\ Bundled /\ Len(rels0) = 3 /\ Len(resources) = 2
    /\ \E i, j \in Idx : i # j /\ SameRef(rels[i], rels[j])
    /\ \E k \in 1..2 : resources[k].Version = bundleVersion
    /\ \E k \in 1..2 : resources[k].Version # bundleVersion

\* C9: for the empty relation set AsOCMResources returns no descriptors, the
\* serialized form "[]" and no error.
C9_EmptySet ==
    (Bundled /\ Len(rels0) = 0) =>
        /\ resources = <<>>
        /\ imageRelationsJSON = <<"[", "]">>
        /\ (pc = "bundled" => err = "")

\* the empty set was bundled
C9_Witness == pc = "bundled" /\ Len(rels0) = 0 /\ component # <<>>

-----------------------------------------------------------------------------
(* SpecRun: the subcommand bundle on a chart directory and the values of   *)
(* --image-relation, then unbundle on a component version that holds the   *)
(* printed resources or lacks one of them.                                 *)

MaxRunInputs == 1

\*   .Values.g is digest of pg:2
DeclNoDigest ==
    ValuesPrefix \o <<"g"," ","i","s"," ">> \o Digest \o <<" ","o","f"," ">> \o RawPgShort

\* values of the option: declarations that parse, that fail before and after
\* a relation was parsed, and that parse but cannot be put into one overlay
RunOptionValues ==
    { DeclPlain,
      DeclVariable,
      DeclQuoteSecond,
      DeclPlain \o <<",">> \o DeclOutputKept,
      DeclVariable \o <<"\n">> \o DeclEmptySegment,
      DeclPlain \o <<",">> \o DeclNoDigest }

ProviderName == <<"s">>
ComponentNamePrefix == <<"p", "/">>

BundleOpts(componentNamePrefix, providerName) ==
    [ComponentNamePrefix |-> componentNamePrefix, ProviderName |-> providerName]

ChartDir(chartYAML, chartLock, charts, git) ==
    [ChartYAML |-> chartYAML, ChartLock |-> chartLock, charts |-> charts, git |-> git]

DependencyName == <<"d">>
DeclaredDependency == ChartDependency(DependencyName, <<"r">>, <<"^", "1">>)
ComputedDependency == ChartDependency(DependencyName, <<"r">>, <<"1", ".", "0">>)

ChartWithoutDependencies == HelmChart("v2", ChartName, ChartVersion, <<>>)
ChartWithDependency == HelmChart("v2", ChartName, ChartVersion, <<DeclaredDependency>>)

\* chart directories after `helm dep build`, inside and outside a Git checkout
GoodChartDirs ==
    { ChartDir(<<ChartWithoutDependencies>>, <<>>, << <<>> >>, "some"),
      ChartDir(<<ChartWithDependency>>, << <<ComputedDependency>> >>,
               << <<DirEntry(TarballName(ComputedDependency), TRUE)>> >>, "none") }

\* chart directories that bundle refuses: no Chart.yaml, apiVersion v1, no
\* charts/, a subchart that was not built, a Chart.lock of another
\* repository, a file in charts/ that no dependency accounts for, a
\* directory that git cannot inspect
BadChartDirs ==
    { ChartDir(<<>>, <<>>, << <<>> >>, "none"),
      ChartDir(<<HelmChart("v1", ChartName, ChartVersion, <<>>)>>, <<>>, << <<>> >>, "none"),
      ChartDir(<<ChartWithoutDependencies>>, <<>>, <<>>, "none"),
      ChartDir(<<ChartWithDependency>>, << <<ComputedDependency>> >>, << <<>> >>, "none"),
      ChartDir(<<ChartWithDependency>>,
               << <<ChartDependency(DependencyName, <<"o">>, <<"1", ".", "0">>)>> >>,
               << <<DirEntry(TarballName(ComputedDependency), TRUE)>> >>, "none"),
      ChartDir(<<ChartWithoutDependencies>>, <<>>,
               << <<DirEntry(<<"x">>, TRUE)>> >>, "none"),
      ChartDir(<<ChartWithoutDependencies>>, <<>>, << <<>> >>, "error") }

\* the options and the chart directory of a run: at most one of them is bad
Invocations ==
    ({BundleOpts(ComponentNamePrefix, ProviderName)} \X (GoodChartDirs \cup BadChartDirs))
    \cup ({BundleOpts(<<>>, ProviderName), BundleOpts(ComponentNamePrefix, <<>>)}
          \X {CHOOSE dir \in GoodChartDirs : dir.git = "some"})

\* calls to the outside that may fail during unbundle
Faults == {"", "GetOCMResources", "UnpackHelmChartTarball", "OpenFile", "Write"}

InitRun ==
    /\ inputs \in BoundedSeq(RunOptionValues, MaxRunInputs)
    /\ environ \in Environments
    /\ \E invocation \in Invocations :
        /\ opts = invocation[1]
        /\ chartDir = invocation[2]
    /\ rels = <<>>
    /\ Idle /\ NoChartFile /\ NoTarball

\* the subcommand bundle
CallRun ==
    /\ pc = "start"
    /\ \E out \in {Run(opts, chartDir, environ, inputs)} :
        /\ steps' = out.steps
        /\ calls' = out.calls
        /\ bundleVersion' = out.version
        /\ rels' = out.rels
        /\ resources' = out.resources
        /\ imageRelationsJSON' = out.imageRelationsJSON
        /\ component' = out.component
        /\ printed' = out.printed
        /\ err' = out.err
        /\ pc' = IF out.err = "" THEN "bundled" ELSE "failed"
    /\ UNCHANGED <<stampVars, unpackVars, rels0, unbundled, localizedValues, written, inputs, environ, opts,
                   chartDir, componentVersion, gotValue>>

\* s without its k-th element (s itself for k = 0)
Without(s, k) == [i \in 1..(Len(s) - (IF k = 0 THEN 0 ELSE 1)) |->
                     IF k = 0 \/ i < k THEN s[i] ELSE s[i + 1]]

\* s with a second resource of the name of its k-th, for another image
Twice(s, k) ==
    Append(s, [s[k] EXCEPT !.Access.ImageReference = RawDbDigest])

\* s with its k-th resource declared in another way: as a resource of another
\* type, with another access type, without an image reference
Redeclared(s, k) ==
    { [s EXCEPT ![k].Type = "file"],
      [s EXCEPT ![k].Access.Type = "localBlob"],
      [s EXCEPT ![k].Access.ImageReference = <<>>] }

\* s with other labels on its chart resource: none, and the image relations
\* as a YAML list
Relabelled(s) ==
    { [s EXCEPT ![1].Labels = <<>>],
      [s EXCEPT ![1].Labels =
          <<OCMLabel(ImageRelationsLabelName, [type |-> "[]any", val |-> <<>>])>>] }

\* the component versions that unbundle is run on: the one made of the
\* printed component, and the ones that differ from it in one resource
ComponentVersions(decls) ==
    {GetOCMResources(Without(decls, k)) : k \in 0..Len(decls)}
    \cup Relabelled(GetOCMResources(decls))
    \cup {Twice(GetOCMResources(decls), k) : k \in 1..Len(decls)}
    \cup UNION {Redeclared(GetOCMResources(decls), k) : k \in 2..Len(decls)}

\* the subcommand unbundle, on one of these component versions
CallUnbundle ==
    /\ pc = "bundled"
    /\ \E fault \in Faults :
        \E infos \in ComponentVersions(component) :
        \E out \in {unbundle(infos, fault)} :
            /\ componentVersion' = infos
            /\ steps' = out.steps
            /\ unbundled' = out.rels
            /\ localizedValues' = out.values
            /\ written' = out.written
            /\ err' = out.err
    /\ pc' = "unbundled"
    /\ UNCHANGED <<stampVars, unpackVars, rels, rels0, bundleVersion, resources, imageRelationsJSON, component,
                   inputs, environ, opts, chartDir, calls, gotValue, printed>>

NextRun == CallRun \/ CallUnbundle

SpecRun == InitRun /\ [][NextRun]_vars

\* the steps of a bundle run that prints
BundleSteps ==
    <<"ParseHelmChartYAML", "ValidateDependencies", "AsOCMResource",
      "ParseImageRelations", "AsOCMResources", "Marshal", "Print">>

\* the relations that the label of the chart resource of cv holds
LabelledRelations(cv) ==
    LET charts == SelectSeq(cv, LAMBDA r : r.Type = "helmChart")
        labels == SelectSeq(charts[1].Labels, LAMBDA l : l.Name = ImageRelationsLabelName)
    IN  Unmarshal(labels[1].Value.val).rels

\* the number of steps with the given name
Entered(name) == Len(SelectSeq(steps, LAMBDA s : s = name))

\* C20: bundle prints the component only after chart parsing, dependency
\* validation, relation parsing and projection have all succeeded, and prints
\* and returns nothing of it when one of them fails; unbundle writes
\* localized-values.yaml only after every relation of the label was resolved and
\* inserted into the overlay, writes nothing of it when a resolution or an insert
\* fails, and BuildLocalizedValues returns no overlay together with its error.
C20_NoPartialOutput ==
    /\ pc \in {"bundled", "failed"} =>
        /\ printed =>
            /\ err = ""
            /\ steps = BundleSteps
            /\ chartDir.ChartYAML # <<>>
            /\ chartDir.ChartYAML[1].APIVersion = "v2"
            /\ chartDir.charts # <<>>
            /\ \A decls \in {Declarations} :
                /\ Len(calls) = Len(decls)
                /\ Len(rels) = Len(decls)
            /\ \A i \in CallIdx : calls[i].err = ""
            /\ Len(component) =
                1 + Cardinality({RefString(rels[i].ImageReference) : i \in Idx})
            /\ \E l \in Range(component[1].Labels) :
                /\ l.Name = ImageRelationsLabelName
                /\ l.Value = StringValue(imageRelationsJSON)
        /\ (err # "" \/ \E i \in CallIdx : calls[i].err # "" \/ steps # BundleSteps) =>
            /\ ~printed
            /\ component = <<>> /\ resources = <<>> /\ imageRelationsJSON = <<>>
            /\ rels = <<>>
    /\ pc = "unbundled" =>
        /\ written =>
            /\ Entered("BuildLocalizedValues") = 1
            /\ Entered("resolve") = Len(LabelledRelations(componentVersion))
            /\ Len(unbundled) = Len(LabelledRelations(componentVersion))
            /\ \A i \in 1..Len(unbundled) :
                /\ unbundled[i].ImageReference # NilRef
                /\ \E r \in Range(componentVersion) :
                    /\ r.Name = unbundled[i].ImageResourceName
                    /\ ParseNormalizedNamed(r.Access.ImageReference).ref
                        = unbundled[i].ImageReference
            /\ \A built \in {BuildLocalizedValues(unbundled)} :
                /\ built.err = ""
                /\ localizedValues = built.values
        /\ (err # "" /\ steps[Len(steps)] \in {"resolve", "BuildLocalizedValues"}) =>
            /\ ~written
            /\ localizedValues = EmptyMap
        /\ (\E i \in 1..Len(unbundled) : unbundled[i].ImageReference = NilRef) =>
            ~written
        /\ ((\A i \in 1..Len(unbundled) : unbundled[i].ImageReference # NilRef)
            /\ BuildLocalizedValues(unbundled).err # "") =>
            /\ ~written
            /\ localizedValues = EmptyMap

\* bundle printed a component of two relations, and unbundle of it failed in
\* BuildLocalizedValues after the first relation was inserted
C20_Witness ==
    /\ pc = "unbundled" /\ printed
    /\ err # "" /\ steps[Len(steps)] = "BuildLocalizedValues"
    /\ Len(unbundled) = 2
    /\ BuildFrom(unbundled, 1, EmptyMap).err # ""
    /\ insertIntoMapRecursively(EmptyMap, unbundled[1].TargetPath, <<"v">>).target # EmptyMap
    /\ ~written

\* bundle failed in the second declaration, with one relation parsed and a
\* command executed, and printed nothing
BundleFailedLate ==
    /\ pc = "failed" /\ ~printed
    /\ Len(calls) = 2 /\ calls[1].err = "" /\ calls[2].err # ""
    /\ steps[Len(steps)] = "ParseImageRelations"

\* unbundle failed while it resolved the second relation
UnbundleFailedInResolution ==
    /\ pc = "unbundled" /\ ~written /\ err # ""
    /\ Entered("resolve") = 2
    /\ steps[Len(steps)] = "resolve"

\* the resources of the component version with the given name, in order
ResourcesNamed(resName) == SelectSeq(componentVersion, LAMBDA r : r.Name = resName)

\* what unbundle asks of the resource of a relation
IsOCIImage(r) ==
    /\ r.Type = "ociImage"
    /\ r.Access.Type = "ociArtifact"
    /\ r.Access.ImageReference # <<>>

\* C21: FindExactlyOneWith gives a resource exactly when one resource matches.
\* When unbundle comes to a relation whose image-resource-name is the name of
\* no resource, or of two or more, or of one resource that is not an ociImage
\* with an ociArtifact access and a non-empty imageReference, it fails with the
\* error of that case, resolves the relation with none of the resources and does
\* not write localized-values.yaml; with exactly one proper resource the relation
\* gets the reference of that resource. The same holds for the one helmChart
\* resource that unbundle looks up first.
C21_ExactlyOneResourcePerName ==
    /\ (pc = "unbundled" /\ Entered("FindExactlyOneWith") = 1) =>
        \A charts \in {SelectSeq(componentVersion, LAMBDA r : r.Type = "helmChart")} :
            /\ Len(charts) = 0 => (err = "did not find any resource" /\ ~written)
            /\ Len(charts) >= 2 =>
                (err = "expected 1 resource, but found more" /\ ~written)
            /\ Len(charts) # 1 =>
                (steps[Len(steps)] = "FindExactlyOneWith" /\ unbundled = <<>>)
            /\ Len(charts) = 1 => err \notin {"did not find any resource",
                                              "expected 1 resource, but found more"}
    /\ (pc = "unbundled" /\ Entered("Unmarshal") = 1) =>
        \A labelled \in {LabelledRelations(componentVersion)} :
        \A i \in 1..Len(labelled) :
        \A found \in {ResourcesNamed(labelled[i].ImageResourceName)} :
            (\A j \in 1..(i - 1) :
                \A before \in {ResourcesNamed(labelled[j].ImageResourceName)} :
                    Len(before) = 1 /\ IsOCIImage(before[1])) =>
                /\ Len(unbundled) = Len(labelled)
                /\ Len(found) = 0 =>
                    /\ err = "while resolving image relations: did not find any resource"
                    /\ unbundled[i].ImageReference = NilRef
                    /\ ~written
                    /\ Entered("resolve") = i /\ steps[Len(steps)] = "resolve"
                /\ Len(found) >= 2 =>
                    /\ err = "while resolving image relations: expected 1 resource, but found more"
                    /\ unbundled[i].ImageReference = NilRef
                    /\ ~written
                    /\ Entered("resolve") = i /\ steps[Len(steps)] = "resolve"
                /\ (Len(found) = 1 /\ ~IsOCIImage(found[1])) =>
                    /\ err = "while resolving image relations: resource does not contain an OCI image reference"
                    /\ unbundled[i].ImageReference = NilRef
                    /\ ~written
                    /\ Entered("resolve") = i /\ steps[Len(steps)] = "resolve"
                /\ (Len(found) = 1 /\ IsOCIImage(found[1])) =>
                    /\ unbundled[i].ImageReference
                        = ParseNormalizedNamed(found[1].Access.ImageReference).ref
                    /\ Entered("resolve") >= i

\* the first relation was resolved, the name of the second is the name of two
\* resources for different images, and unbundle failed
C21_Witness ==
    /\ pc = "unbundled" /\ ~written
    /\ err = "while resolving image relations: expected 1 resource, but found more"
    /\ Len(unbundled) = 2
    /\ unbundled[1].ImageReference # NilRef
    /\ unbundled[2].ImageReference = NilRef
    /\ \A found \in {ResourcesNamed(unbundled[2].ImageResourceName)} :
        /\ Len(found) = 2
        /\ found[1].Access.ImageReference # found[2].Access.ImageReference

\* the one resource of the name of a relation has no image reference
UnbundleFailedOnResourceType ==
    /\ pc = "unbundled" /\ ~written
    /\ err = "while resolving image relations: resource does not contain an OCI image reference"
    /\ \E i \in 1..Len(unbundled) :
        \A found \in {ResourcesNamed(unbundled[i].ImageResourceName)} :
            Len(found) = 1 /\ found[1].Type = "ociImage"
            /\ found[1].Access.Type = "ociArtifact"

\* the errors of unbundle that come from outside the program
FaultErrors ==
    { "could not run ocm", "could not unpack resource",
      "open localized-values.yaml: permission denied",
      "write localized-values.yaml: no space left on device" }

\* the labels with the name cloud.sap/image-relations on the chart resource of
\* the printed component
RelationLabels ==
    SelectSeq(component[1].Labels, LAMBDA l : l.Name = ImageRelationsLabelName)

\* C25: the chart resource of every component that bundle prints carries the
\* label cloud.sap/image-relations with a string value, which is "[]" when the
\* relation set is empty; unbundle of the component version made of a printed
\* component never fails with "missing required label" or "expected string
\* value", and for the empty relation set it fails only where a call to the
\* outside fails and otherwise writes the empty overlay.
C25_LabelAlwaysPresent ==
    /\ pc \in {"bundled", "unbundled"} =>
        /\ printed
        /\ component[1].Type = "helmChart"
        /\ Len(RelationLabels) = 1
        /\ RelationLabels[1].Value.type = "string"
        /\ rels = <<>> => RelationLabels[1].Value.val = <<"[", "]">>
    /\ (pc = "unbundled" /\ componentVersion = GetOCMResources(component)) =>
        /\ err \notin {"could not unpack resource: missing required label",
                       "could not read label: expected string value"}
        /\ rels = <<>> =>
            /\ err \in {""} \cup FaultErrors
            /\ err = "" =>
                (written /\ localizedValues = EmptyMap /\ unbundled = <<>>)

\* bundle ran without an --image-relation option, and unbundle of its
\* component version wrote the empty overlay
C25_Witness ==
    /\ pc = "unbundled" /\ inputs = <<>> /\ rels = <<>>
    /\ componentVersion = GetOCMResources(component)
    /\ RelationLabels[1].Value = StringValue(<<"[", "]">>)
    /\ Entered("Unmarshal") = 1
    /\ err = "" /\ written /\ localizedValues = EmptyMap

\* unbundle failed on a component version whose chart resource has no label, or
\* a label that is a list
UnbundleFailedOnMissingLabel ==
    /\ pc = "unbundled"
    /\ err = "could not unpack resource: missing required label"

UnbundleFailedOnLabelType ==
    /\ pc = "unbundled"
    /\ err = "could not read label: expected string value"

-----------------------------------------------------------------------------
(* SpecTimestamp: the subcommand add-timestamp-to-version on a Chart.yaml, *)
(* once and again.                                                         *)

MaxStamps == 2

\* where sub begins in s from position i on, leftmost (0 if nowhere)
IndexFrom(s, sub, i) ==
    LET starts == {j \in i..(Len(s) - Len(sub) + 1) : HasAt(s, j, sub)}
    IN  IF starts = {} THEN 0
        ELSE CHOOSE j \in starts : \A k \in starts : j <= k

\* strings.Contains
Contains(s, sub) == IndexFrom(s, sub, 1) # 0

\* strings.ReplaceAll(s, old, new) from position i of s on: the occurrences of
\* old that do not overlap, from left to right; an empty old matches before
\* every character and at the end
RECURSIVE ReplaceAllFrom(_, _, _, _)
ReplaceAllFrom(s, old, new, i) ==
    IF old = <<>>
    THEN IF i > Len(s) THEN new
         ELSE new \o <<s[i]>> \o ReplaceAllFrom(s, old, new, i + 1)
    ELSE Only({ IF j = 0 THEN SubSeq(s, i, Len(s))
                ELSE SubSeq(s, i, j - 1) \o new
                         \o ReplaceAllFrom(s, old, new, j + Len(old)) :
                j \in {IndexFrom(s, old, i)} })

ReplaceAll(s, old, new) == ReplaceAllFrom(s, old, new, 1)

\* strings.Join(lines, "\n")
RECURSIVE JoinLines(_)
JoinLines(lines) ==
    IF Len(lines) = 0 THEN <<>>
    ELSE IF Len(lines) = 1 THEN lines[1]
    ELSE lines[1] \o <<"\n">> \o JoinLines(Tail(lines))

VersionKey == <<"v", "e", "r", "s", "i", "o", "n">>

\* the scalar that a YAML mapping line holds behind "key:": without a comment
\* that follows it and without its double quotes
Scalar(text) ==
    LET t == TrimSpace(text)
        comments == {j \in 1..Len(t) :
                        t[j] = "#" /\ (j = 1 \/ t[j - 1] \in WhiteSpace)}
        plain == IF comments = {} THEN t
                 ELSE TrimSpace(SubSeq(t, 1,
                          (CHOOSE j \in comments : \A k \in comments : j <= k) - 1))
    IN  IF Len(plain) >= 2 /\ plain[1] = "\"" /\ plain[Len(plain)] = "\""
        THEN SubSeq(plain, 2, Len(plain) - 1)
        ELSE plain

\* the field Version of the HelmChart that util.ReadYAMLFile fills from the
\* contents of Chart.yaml: the scalar of the key "version" of the top-level
\* mapping, which is the line that begins with "version:" (the zero value when
\* there is none)
ReadVersion(data) ==
    LET lines == Split(data, "\n")
        own == {k \in 1..Len(lines) : HasAt(lines[k], 1, VersionKey \o <<":">>)}
    IN  IF own = {} THEN <<>>
        ELSE Scalar(SubSeq(lines[CHOOSE k \in own : TRUE],
                           Len(VersionKey) + 2, Len(lines[CHOOSE k \in own : TRUE])))

\* the loop of AddTimestampToVersion over the lines of Chart.yaml
EditedLines(lines, oldVersion, newVersion) ==
    [k \in 1..Len(lines) |->
        IF ~HasAt(TrimSpace(lines[k]), 1, VersionKey) THEN lines[k]
        ELSE ReplaceAll(lines[k], oldVersion, newVersion)]

\* func (c *HelmChart) AddTimestampToVersion() error, for the chart version that
\* ParseHelmChartYAML read, the Chart.yaml in the chart directory, the time of
\* the call as time.Now().Format writes it, and a failure of os.WriteFile
\* ("" when it succeeds)
AddTimestampToVersion(version, file, now, fault) ==
    LET oldVersion == version
        newVersion == oldVersion \o <<"+", "b", "u", "n", "d", "l", "e", ".">> \o now
    IN  IF Contains(version, <<"+">>)
        THEN [file |-> file, err |-> "Chart.yaml already has a build identifier"]
        ELSE IF file = <<>>
        THEN [file |-> file, err |-> "open Chart.yaml: no such file or directory"]
        ELSE Only({ Only({
                 IF newLines = lines
                 THEN [file |-> file,
                       err |-> "tried to edit Chart.yaml, but could not find a line that looks like version"]
                 ELSE IF fault = "OpenFile"
                 THEN [file |-> file, err |-> "open Chart.yaml: permission denied"]
                 ELSE IF fault = "Write"
                 THEN [file |-> << <<>> >>,
                       err |-> "write Chart.yaml: no space left on device"]
                 ELSE [file |-> <<JoinLines(newLines)>>, err |-> ""] :
                 newLines \in {EditedLines(lines, oldVersion, newVersion)} }) :
             lines \in {Split(file[1], "\n")} })

\* RunE of addTimestampToVersionCmd: ParseHelmChartYAML, then AddTimestampToVersion
AddTimestampToVersionCmd(file, now, fault) ==
    IF file = <<>>
    THEN [file |-> file, err |-> "open Chart.yaml: no such file or directory"]
    ELSE AddTimestampToVersion(ReadVersion(file[1]), file, now, fault)

\* the lines of the Chart.yaml files of the model
LineAPIVersion == <<"a", "p", "i", "V", "e", "r", "s", "i", "o", "n", ":", " ", "v", "2">>
LineName == <<"n", "a", "m", "e", ":", " ", "c">>
LineAppVersion == <<"a", "p", "p", "V", "e", "r", "s", "i", "o", "n", ":", " ", "1", ".", "0">>
LineDependencies == <<"d", "e", "p", "e", "n", "d", "e", "n", "c", "i", "e", "s", ":">>
LineDependencyName == <<"-", " ", "n", "a", "m", "e", ":", " ", "d">>
LineRepository == <<" ", " ", "r", "e", "p", "o", "s", "i", "t", "o", "r", "y", ":", " ", "r">>

\* the line that sets the chart's own version: plain, in double quotes, with
\* a comment behind it, and with a build identifier
OwnVersionLines ==
    { <<"v", "e", "r", "s", "i", "o", "n", ":", " ", "1", ".", "0">>, <<"v", "e", "r", "s", "i", "o", "n", ":", " ", "\"", "1", ".", "0", "\"">>,
      <<"v", "e", "r", "s", "i", "o", "n", ":", " ", "1", ".", "0", " ", "#", " ", "1", ".", "0">>,
      <<"v", "e", "r", "s", "i", "o", "n", ":", " ", "1", ".", "0", "+", "b">> }

\* version lines of an entry under "dependencies": the chart's own version, a
\* range that holds it, and versions that do not hold it
DependencyVersionLines ==
    { <<" ", " ", "v", "e", "r", "s", "i", "o", "n", ":", " ", "1", ".", "0">>,
      <<" ", " ", "v", "e", "r", "s", "i", "o", "n", ":", " ", "^", "1", ".", "0">>,
      <<" ", " ", "v", "e", "r", "s", "i", "o", "n", ":", " ", "2", ".", "1">> }

\* Chart.yaml with the version line before or after the dependencies, with and
\* without a newline at its end
ChartFiles ==
    { JoinLines(<<LineAPIVersion, LineName>> \o first \o <<LineAppVersion>> \o second \o end) :
        first \in { <<v>> : v \in OwnVersionLines },
        second \in {<<>>} \cup { <<LineDependencies, LineDependencyName, d, LineRepository>> :
                                    d \in DependencyVersionLines },
        end \in {<<>>, << <<>> >>} }
    \cup
    { JoinLines(<<LineAPIVersion, LineDependencies, LineDependencyName, d, LineRepository,
                  LineName, v>>) :
        d \in DependencyVersionLines, v \in OwnVersionLines }

\* what time.Now().Format("20060102-150405") returns
Timestamps == { <<"2", "0", "2", "5", "0", "1", "0", "2", "-", "0", "3", "0", "4", "0", "5">>,
                <<"2", "0", "2", "5", "0", "1", "0", "2", "-", "0", "3", "0", "4", "0", "6">> }

InitTimestamp ==
    /\ chartFile \in {<<>>} \cup { <<data>> : data \in ChartFiles }
    /\ chartFile0 = <<>> /\ stampErrs = <<>>
    /\ rels = <<>>
    /\ NoOptions /\ Idle /\ NoTarball

\* one invocation of the subcommand add-timestamp-to-version
CallAddTimestampToVersion ==
    /\ Len(stampErrs) < MaxStamps
    /\ \E now \in Timestamps, fault \in {"", "OpenFile", "Write"} :
        \E out \in {AddTimestampToVersionCmd(chartFile, now, fault)} :
            /\ chartFile0' = chartFile
            /\ chartFile' = out.file
            /\ stampErrs' = Append(stampErrs, out.err)
            /\ err' = out.err
    /\ pc' = "stamped"
    /\ UNCHANGED <<unpackVars, rels, rels0, bundleVersion, resources, imageRelationsJSON,
                   component, unbundled, localizedValues, written, inputs, environ,
                   opts, chartDir, steps, componentVersion, calls, gotValue, printed>>

NextTimestamp == CallAddTimestampToVersion

SpecTimestamp == InitTimestamp /\ [][NextTimestamp]_vars

Stamped == pc = "stamped"

\* the lines of Chart.yaml before and after the last invocation
LinesBefore == Split(chartFile0[1], "\n")
LinesAfter == Split(chartFile[1], "\n")

\* the line of Chart.yaml that sets the chart's own version
OwnVersionLine(lines) ==
    CHOOSE k \in 1..Len(lines) : HasAt(lines[k], 1, VersionKey \o <<":">>)

\* C26: after a successful AddTimestampToVersion, Chart.yaml differs from its
\* previous contents only in the line that sets the chart's own version, where
\* the old version is replaced by '<old>+bundle.<timestamp>', and every other
\* line, the version lines of the entries under 'dependencies' included, is
\* unchanged; when the chart version already holds a '+', the call fails and
\* leaves Chart.yaml unchanged, so that an invocation after a successful one
\* fails.
C26_OnlyOwnVersionLineEdited ==
    Stamped =>
        /\ err = "" =>
            \A before \in {LinesBefore} : \A after \in {LinesAfter} :
                /\ Len(after) = Len(before)
                /\ \A k \in 1..Len(before) :
                    IF k = OwnVersionLine(before)
                    THEN \E now \in Timestamps : \A old \in {ReadVersion(chartFile0[1])} :
                            after[k] = ReplaceAll(before[k], old, old \o <<"+", "b", "u", "n", "d", "l", "e", ".">> \o now)
                    ELSE after[k] = before[k]
        /\ (chartFile0 # <<>> /\ Contains(ReadVersion(chartFile0[1]), <<"+">>)) =>
            (err # "" /\ chartFile = chartFile0)
        /\ \A i, j \in 1..Len(stampErrs) :
            (i < j /\ stampErrs[i] = "") => stampErrs[j] # ""

\* the parts of C26 that hold: a successful invocation changes the line of the
\* chart's own version and no line that does not begin with "version" behind
\* its white space, a version with '+' makes the call fail without a write, and
\* no invocation after a successful one succeeds
TimestampOnVersionLinesOnly ==
    Stamped =>
        /\ err = "" =>
            \A before \in {LinesBefore} : \A after \in {LinesAfter} :
                /\ Len(after) = Len(before)
                /\ after[OwnVersionLine(before)] # before[OwnVersionLine(before)]
                /\ Contains(ReadVersion(chartFile[1]), <<"+">>)
                /\ \A k \in 1..Len(before) :
                    ~HasAt(TrimSpace(before[k]), 1, VersionKey) => after[k] = before[k]
        /\ (chartFile0 # <<>> /\ Contains(ReadVersion(chartFile0[1]), <<"+">>)) =>
            (err # "" /\ chartFile = chartFile0)
        /\ \A i, j \in 1..Len(stampErrs) :
            (i < j /\ stampErrs[i] = "") => stampErrs[j] # ""

\* a second invocation failed after a successful first one
SecondStampFailed ==
    /\ Stamped /\ Len(stampErrs) = 2
    /\ stampErrs[1] = "" /\ stampErrs[2] = "Chart.yaml already has a build identifier"
    /\ chartFile = chartFile0

\* a successful invocation changed the version line of a dependency
DependencyVersionEdited ==
    /\ Stamped /\ err = ""
    /\ \E k \in 1..Len(LinesBefore) :
        /\ k # OwnVersionLine(LinesBefore)
        /\ LinesAfter[k] # LinesBefore[k]

-----------------------------------------------------------------------------
(* SpecUnpack: UnpackHelmChartTarball on the entries of a tar archive and  *)
(* the directory that unbundle unpacks the chart into.                     *)

MaxEntries == 2

\* strings.Join(segments, "/")
RECURSIVE JoinSlash(_)
JoinSlash(segments) ==
    IF Len(segments) = 0 THEN <<>>
    ELSE IF Len(segments) = 1 THEN segments[1]
    ELSE segments[1] \o <<"/">> \o JoinSlash(Tail(segments))

\* the loop of filepath.Clean over the elements of a path, from element i on:
\* empty elements and "." are dropped, ".." takes away the element before it,
\* and stays when there is none and the path is not rooted
RECURSIVE CleanFrom(_, _, _, _)
CleanFrom(segments, i, kept, rooted) ==
    IF i > Len(segments) THEN kept
    ELSE IF segments[i] \in {<<>>, <<".">>}
    THEN CleanFrom(segments, i + 1, kept, rooted)
    ELSE IF segments[i] = <<".", ".">>
    THEN IF kept # <<>> /\ kept[Len(kept)] # <<".", ".">>
         THEN CleanFrom(segments, i + 1, SubSeq(kept, 1, Len(kept) - 1), rooted)
         ELSE IF rooted THEN CleanFrom(segments, i + 1, kept, rooted)
         ELSE CleanFrom(segments, i + 1, Append(kept, segments[i]), rooted)
    ELSE CleanFrom(segments, i + 1, Append(kept, segments[i]), rooted)

\* filepath.Clean on Unix
Clean(path) ==
    LET rooted == path # <<>> /\ path[1] = "/"
        kept == CleanFrom(Split(path, "/"), 1, <<>>, rooted)
    IN  IF rooted THEN <<"/">> \o JoinSlash(kept)
        ELSE IF kept = <<>> THEN <<".">>
        ELSE JoinSlash(kept)

\* filepath.Join(dir, name)
JoinPath(dir, name) ==
    IF dir = <<>> /\ name = <<>> THEN <<>>
    ELSE IF name = <<>> THEN Clean(dir)
    ELSE IF dir = <<>> THEN Clean(name)
    ELSE Clean(dir \o <<"/">> \o name)

\* filepath.Dir
Dir(path) == Clean(SubSeq(path, 1, LastIndex(path, "/")))

\* a variant that refuses absolute and empty names only
IsLocalUnlessAbsolute(path) == path # <<>> /\ path[1] # "/"

\* filepath.IsLocal on Unix
IsLocal(path) ==
    LET hasDots == \E part \in Range(Split(path, "/")) : part \in {<<".">>, <<".", ".">>}
        cleaned == IF hasDots THEN Clean(path) ELSE path
    IN  IF path = <<>> \/ path[1] = "/" THEN FALSE
        ELSE ~(cleaned = <<".", ".">> \/ HasAt(cleaned, 1, <<".", ".", "/">>))

\* what a call did to the file system for entry k of the archive
FsOp(k, op, path) == [entry |-> k, op |-> op, path |-> path]

\* the results of the calls into the file system: the file system after the
\* call, what the call did, and its error
FsResult(files, ops, e) == [fs |-> files, ops |-> ops, err |-> e]

\* os.MkdirAll(path, 0777) for entry k: nothing when path is a directory, an
\* error when it is something else, otherwise the parent first and then path
RECURSIVE MkdirAll(_, _, _)
MkdirAll(files, path, k) ==
    IF path \in DOMAIN files
    THEN IF files[path] = "dir" THEN FsResult(files, <<>>, "")
         ELSE FsResult(files, <<>>, "mkdir: not a directory")
    ELSE Only({ IF parent.err # "" THEN parent
                ELSE FsResult((path :> "dir") @@ parent.fs,
                              Append(parent.ops, FsOp(k, "mkdir", path)), "") :
                parent \in {IF Dir(path) = path THEN FsResult(files, <<>>, "")
                            ELSE MkdirAll(files, Dir(path), k)} })

\* os.Mkdir(path, 0777) for entry k
Mkdir(files, path, k) ==
    IF path \in DOMAIN files THEN FsResult(files, <<>>, "mkdir: file exists")
    ELSE IF Dir(path) \notin DOMAIN files
    THEN FsResult(files, <<>>, "mkdir: no such file or directory")
    ELSE IF files[Dir(path)] # "dir" THEN FsResult(files, <<>>, "mkdir: not a directory")
    ELSE FsResult((path :> "dir") @@ files, <<FsOp(k, "mkdir", path)>>, "")

\* os.Create(path), io.Copy(writer, tr) and writer.Close() for entry k
CreateAndCopy(files, path, k) ==
    IF path \in DOMAIN files /\ files[path] = "dir"
    THEN FsResult(files, <<>>, "open: is a directory")
    ELSE IF Dir(path) \notin DOMAIN files
    THEN FsResult(files, <<>>, "open: no such file or directory")
    ELSE IF files[Dir(path)] # "dir" THEN FsResult(files, <<>>, "open: not a directory")
    ELSE FsResult((path :> "file") @@ files,
                  <<FsOp(k, "create", path), FsOp(k, "write", path)>>, "")

\* a header of the archive as tr.Next() returns it, with its error
TarHeader(name, typeflag, e) == [Name |-> name, Typeflag |-> typeflag, err |-> e]

\* the body of the loop of UnpackHelmChartTarball for header k, from the switch
\* over hdr.Typeflag on
Extract(hdr, k, targetPath, made) ==
    IF made.err # "" THEN made
    ELSE IF hdr.Typeflag = "TypeReg"
    THEN Only({ FsResult(out.fs, made.ops \o out.ops, out.err) :
                    out \in {CreateAndCopy(made.fs, targetPath, k)} })
    ELSE IF hdr.Typeflag = "TypeDir"
    THEN Only({ FsResult(out.fs, made.ops \o out.ops, out.err) :
                    out \in {Mkdir(made.fs, targetPath, k)} })
    ELSE FsResult(made.fs, made.ops, "do not know how to extract non-regular file")

\* the loop of UnpackHelmChartTarball from header k on; acc holds the file
\* system, what was done to it, and the names that were logged
RECURSIVE UnpackFrom(_, _, _, _)
UnpackFrom(headers, k, outputDirPath, acc) ==
    IF k > Len(headers) THEN acc
    ELSE IF headers[k].err # "" THEN [acc EXCEPT !.err = headers[k].err]
    ELSE IF ~IsLocal(headers[k].Name)
    THEN [acc EXCEPT !.entered = Append(@, headers[k].Name),
                     !.err = "refusing to extract file which looks like it wants to exploit a path-traversal vulnerability"]
    ELSE Only({ Only({
             IF done.err # ""
             THEN [fs |-> done.fs, ops |-> acc.ops \o done.ops,
                   entered |-> Append(acc.entered, headers[k].Name), err |-> done.err]
             ELSE UnpackFrom(headers, k + 1, outputDirPath,
                      [fs |-> done.fs, ops |-> acc.ops \o done.ops,
                       entered |-> Append(acc.entered, headers[k].Name), err |-> ""]) :
             done \in {Extract(headers[k], k, targetPath,
                               MkdirAll(acc.fs, Dir(targetPath), k))} }) :
         targetPath \in {JoinPath(outputDirPath, headers[k].Name)} })

\* func UnpackHelmChartTarball(buf []byte, outputDirPath string) error
UnpackHelmChartTarball(headers, outputDirPath, files) ==
    UnpackFrom(headers, 1, outputDirPath,
               [fs |-> files, ops |-> <<>>, entered |-> <<>>, err |-> ""])

\* the directory that unbundle unpacks the chart into, and the one it made
\* before with os.MkdirAll
OutputDirPath == <<"/", "o", "/", "c">>
ParentDirPath == <<"/", "o">>

\* names of the entries: local ones, with and without "." and "..", absolute
\* ones, ones that leave the directory, and the empty name
EntryNames ==
    { <<"a">>, <<"a", "/", "b">>, <<"d", "/">>, <<".">>, <<"a", "/", ".", ".", "/", "b">>,
      <<"a", "/", ".", ".", "/", ".", ".", "/", "x">>,
      <<".", ".", "/", "x">>, <<"/", "e">>, <<>>, <<".", "/", "a">> }

\* the headers of the archives: regular files, directories, symbolic links, and
\* a header that cannot be read
TarHeaders ==
    { TarHeader(name, typeflag, "") :
        name \in EntryNames, typeflag \in {"TypeReg", "TypeDir", "TypeSymlink"} }
    \cup { TarHeader(<<>>, "", "unexpected EOF") }

\* the file system before the call: the directory of unbundle, with or without
\* the directory of the chart in it
FileSystems ==
    { (<<"/">> :> "dir") @@ (ParentDirPath :> "dir"),
      (<<"/">> :> "dir") @@ (ParentDirPath :> "dir") @@ (OutputDirPath :> "dir") }

InitUnpack ==
    /\ tarball \in BoundedSeq(TarHeaders, MaxEntries)
    /\ fs \in FileSystems
    /\ fsOps = <<>>
    /\ rels = <<>>
    /\ NoOptions /\ Idle /\ NoChartFile

CallUnpackHelmChartTarball ==
    /\ pc = "start"
    /\ \E out \in {UnpackHelmChartTarball(tarball, OutputDirPath, fs)} :
        /\ fs' = out.fs
        /\ fsOps' = out.ops
        /\ steps' = out.entered
        /\ err' = out.err
    /\ pc' = "unpacked"
    /\ UNCHANGED <<stampVars, tarball, rels, rels0, bundleVersion, resources,
                   imageRelationsJSON, component, unbundled, localizedValues, written,
                   inputs, environ, opts, chartDir, componentVersion, calls, gotValue,
                   printed>>

NextUnpack == CallUnpackHelmChartTarball

SpecUnpack == InitUnpack /\ [][NextUnpack]_vars

Unpacked == pc = "unpacked"

\* the path is the output directory or lies below it
Inside(path) ==
    path = OutputDirPath \/ HasAt(path, 1, OutputDirPath \o <<"/">>)

\* how deep below the directory it starts in a relative name leads, element by
\* element from element i on; -1 as soon as it leads above that directory
RECURSIVE Depth(_, _, _)
Depth(segments, i, depth) ==
    IF depth < 0 \/ i > Len(segments) THEN depth
    ELSE IF segments[i] \in {<<>>, <<".">>} THEN Depth(segments, i + 1, depth)
    ELSE IF segments[i] = <<".", ".">> THEN Depth(segments, i + 1, depth - 1)
    ELSE Depth(segments, i + 1, depth + 1)

\* the name is not a local path: empty, absolute, or leading out through ".."
Escapes(name) ==
    name = <<>> \/ name[1] = "/" \/ Depth(Split(name, "/"), 1, 0) < 0

\* what was done to the file system for entry k
OpsOf(k) == SelectSeq(fsOps, LAMBDA o : o.entry = k)

\* C27: UnpackHelmChartTarball creates and writes nothing outside the output
\* directory: every path it made or wrote is the output directory or lies below
\* it, and what lies outside is as it was; an entry whose name is not a local
\* path ends the call with an error before anything is made for it; an entry
\* that is neither a regular file nor a directory ends the call with an error
\* and is neither created nor written; nothing is done for the entries behind
\* the one that failed, and a call that returns no error has entered them all.
C27_NothingOutsideOutputDir ==
    Unpacked =>
        /\ \A n \in 1..Len(fsOps) : Inside(fsOps[n].path)
        /\ \A path \in DOMAIN fs :
            Inside(path) \/ (path \in {<<"/">>, ParentDirPath} /\ fs[path] = "dir")
        /\ Len(steps) <= Len(tarball)
        /\ \A n \in 1..Len(fsOps) : fsOps[n].entry <= Len(steps)
        /\ err = "" => Len(steps) = Len(tarball)
        /\ \A k \in 1..Len(steps) :
            /\ steps[k] = tarball[k].Name
            /\ k < Len(steps) =>
                /\ ~Escapes(tarball[k].Name)
                /\ tarball[k].Typeflag \in {"TypeReg", "TypeDir"}
            /\ Escapes(tarball[k].Name) =>
                /\ k = Len(steps)
                /\ err = "refusing to extract file which looks like it wants to exploit a path-traversal vulnerability"
                /\ OpsOf(k) = <<>>
            /\ (~Escapes(tarball[k].Name)
                    /\ tarball[k].Typeflag \notin {"TypeReg", "TypeDir"}) =>
                /\ k = Len(steps)
                /\ err \in {"do not know how to extract non-regular file",
                            "mkdir: not a directory"}
                /\ \A n \in 1..Len(OpsOf(k)) : OpsOf(k)[n].op = "mkdir"

\* a regular file was unpacked, and the call then refused a name that leads out
\* of the output directory through ".." behind a local element
C27_Witness ==
    /\ Unpacked /\ Len(tarball) = 2 /\ Len(steps) = 2
    /\ tarball[1].Typeflag = "TypeReg"
    /\ \E n \in 1..Len(fsOps) : fsOps[n] = FsOp(1, "write", JoinPath(OutputDirPath, tarball[1].Name))
    /\ tarball[2].Name = <<"a", "/", ".", ".", "/", ".", ".", "/", "x">>
    /\ err = "refusing to extract file which looks like it wants to exploit a path-traversal vulnerability"
    /\ OpsOf(2) = <<>>

\* a symbolic link below a new directory was refused after the directory was made
SymlinkRefused ==
    /\ Unpacked /\ err = "do not know how to extract non-regular file"
    /\ tarball[Len(steps)].Typeflag = "TypeSymlink"
    /\ OpsOf(Len(steps)) # <<>>
    /\ JoinPath(OutputDirPath, tarball[Len(steps)].Name) \notin DOMAIN fs

=============================================================================
